---- MODULE Spec2Model ----
(***************************************************************************)
(* Token cache subsystem of msal-common: the credential cache-key codec    *)
(* (CredentialEntity), the cache manager's key-value store, and the        *)
(* refresh-token client's acquireToken pipeline.                           *)
(*                                                                         *)
(* Strings are sequences of one-character strings, so that toLowerCase,    *)
(* join and indexOf are computed character by character.                   *)
(***************************************************************************)
EXTENDS Integers, Sequences, FiniteSets, TLC

VARIABLES
    entity,         \* codec: the CredentialEntity whose key is generated
    keyParts,       \* codec: the credentialKey array of generateCredentialCacheKey
    credentialKey,  \* codec: the string generateCredentialKey() returned
    pcCodec,        \* codec: "start" | "done" | "classified"
    classified,     \* codec: the type getCredentialType returned for credentialKey
    store,          \* cache manager: the flat key-value store, a set of [key, value]
    lastOp,         \* cache manager: the last operation, its argument and result
    lastSet,        \* cache manager: entity of the last setCredential not yet disturbed
    lastWritten,    \* cache manager: per cache key, the entity written last (history)
    pending,        \* cache manager: per writer, the backend write it has prepared
    pc,             \* client: per acquireToken call, "idle" | "awaiting" | "resolved" | "rejected"
    request,        \* client: per call, the RefreshTokenRequest
    response,       \* client: per call, the body of the network response
    outcome,        \* client: per call, the error thrown and the result returned
    trace,          \* client: per call, the steps taken, in order
    posts,          \* network: per call, the number of POSTs sent
    configuration,  \* client: the ClientConfiguration the application passed
    config          \* client: this.config, what buildClientConfiguration returned

codecVars == <<entity, keyParts, credentialKey, pcCodec, classified>>
cacheVars == <<store, lastOp, lastSet, lastWritten, pending>>
configVars == <<configuration, config>>
clientVars == <<pc, request, response, outcome, trace, posts, configuration, config>>
vars == <<entity, keyParts, credentialKey, pcCodec, classified, store, lastOp, lastSet, lastWritten, pending,
          pc, request, response, outcome, trace, posts, configuration, config>>

----------------------------------------------------------------------------
(* Strings *)

\* JavaScript's undefined, for the optional fields familyId, realm, target.
Undefined == <<"undefined">>

EmptyString == << >>

\* An absent object (null or undefined where a record is expected).
None == [schema |-> "None"]

UpperChars == <<"A","B","C","D","E","F","G","H","I","J","K","L","M",
                "N","O","P","Q","R","S","T","U","V","W","X","Y","Z">>
LowerChars == <<"a","b","c","d","e","f","g","h","i","j","k","l","m",
                "n","o","p","q","r","s","t","u","v","w","x","y","z">>

\* The lower-case letter of each upper-case letter.
LowerCaseOf ==
    [ c \in { UpperChars[i] : i \in DOMAIN UpperChars } |->
        LowerChars[CHOOSE i \in DOMAIN UpperChars : UpperChars[i] = c] ]

LowerChar(c) == IF c \in DOMAIN LowerCaseOf THEN LowerCaseOf[c] ELSE c

\* String.prototype.toLowerCase
toLowerCase(s) == [i \in DOMAIN s |-> LowerChar(s[i])]

\* JavaScript truthiness of an optional string: undefined and "" are falsy.
Falsy(s) == s = Undefined \/ s = EmptyString

\* a || b
OrElse(a, b) == IF Falsy(a) THEN b ELSE a

\* Array.prototype.join
RECURSIVE join(_, _)
join(parts, sep) ==
    IF Len(parts) = 0 THEN EmptyString
    ELSE IF Len(parts) = 1 THEN parts[1]
    ELSE parts[1] \o sep \o join(Tail(parts), sep)

----------------------------------------------------------------------------
(* Constants.ts *)

CACHE_KEY_SEPARATOR == <<"-">>

ID_TOKEN == <<"I","d","T","o","k","e","n">>
ACCESS_TOKEN == <<"A","c","c","e","s","s","T","o","k","e","n">>
REFRESH_TOKEN == <<"R","e","f","r","e","s","h","T","o","k","e","n">>

CredentialType == {ID_TOKEN, ACCESS_TOKEN, REFRESH_TOKEN}

NOT_DEFINED == <<"n","o","t","_","d","e","f","i","n","e","d">>

----------------------------------------------------------------------------
(* ClientConfiguration: buildClientConfiguration *)

\* Token renewal offset default in seconds
DEFAULT_TOKEN_RENEWAL_OFFSET_SEC == 300

DEFAULT_SYSTEM_OPTIONS ==
    [ tokenRenewalOffsetSeconds |-> DEFAULT_TOKEN_RENEWAL_OFFSET_SEC, telemetry |-> None ]

\* { ...defaults, ...user }: each own property of user replaces the default.
ObjectSpread(defaults, user) ==
    [ k \in DOMAIN defaults \cup DOMAIN user |->
        IF k \in DOMAIN user THEN user[k] ELSE defaults[k] ]

\* AuthError.createUnexpectedError(errDesc)
createUnexpectedError(errDesc) ==
    [ type |-> "AuthError", code |-> <<"unexpected_error">>, description |-> errDesc ]

\* An interface is the error each of its methods throws when called, None for
\* a method that is implemented.
DEFAULT_NETWORK_IMPLEMENTATION ==
    [ sendGetRequestAsync |-> createUnexpectedError(
          <<"Network interface - sendGetRequestAsync() has not been implemented">>),
      sendPostRequestAsync |-> createUnexpectedError(
          <<"Network interface - sendPostRequestAsync() has not been implemented">>) ]

DEFAULT_CRYPTO_IMPLEMENTATION ==
    [ createNewGuid |-> createUnexpectedError(
          <<"Crypto interface - createNewGuid() has not been implemented">>),
      base64Decode |-> createUnexpectedError(
          <<"Crypto interface - base64Decode() has not been implemented">>),
      base64Encode |-> createUnexpectedError(
          <<"Crypto interface - base64Encode() has not been implemented">>),
      generatePkceCodes |-> createUnexpectedError(
          <<"Crypto interface - generatePkceCodes() has not been implemented">>) ]

\* The interface an application supplies: every method is implemented.
Implemented(interface) == [ m \in DOMAIN interface |-> None ]

\* type ClientConfiguration; an optional member left out is None.
ClientConfiguration(systemOptions, networkInterface, cryptoInterface) ==
    [ systemOptions |-> systemOptions, networkInterface |-> networkInterface,
      cryptoInterface |-> cryptoInterface ]

\* Faulty variant: it spreads the defaults after the application's options.
buildClientConfiguration_DefaultsLast(userConfiguration) ==
    [ systemOptions |-> ObjectSpread(userConfiguration.systemOptions, DEFAULT_SYSTEM_OPTIONS),
      networkInterface |-> IF userConfiguration.networkInterface = None
                           THEN DEFAULT_NETWORK_IMPLEMENTATION
                           ELSE userConfiguration.networkInterface,
      cryptoInterface |-> IF userConfiguration.cryptoInterface = None
                          THEN DEFAULT_CRYPTO_IMPLEMENTATION
                          ELSE userConfiguration.cryptoInterface ]

buildClientConfiguration(userConfiguration) ==
    [ systemOptions |-> ObjectSpread(DEFAULT_SYSTEM_OPTIONS, userConfiguration.systemOptions),
      networkInterface |-> IF userConfiguration.networkInterface = None
                           THEN DEFAULT_NETWORK_IMPLEMENTATION
                           ELSE userConfiguration.networkInterface,
      cryptoInterface |-> IF userConfiguration.cryptoInterface = None
                          THEN DEFAULT_CRYPTO_IMPLEMENTATION
                          ELSE userConfiguration.cryptoInterface ]

\* A ClientConfiguration whose systemOptions are undefined or {}, with the
\* application's network and crypto implementations.
DefaultConfiguration ==
    ClientConfiguration([ k \in {} |-> None ], Implemented(DEFAULT_NETWORK_IMPLEMENTATION),
                        Implemented(DEFAULT_CRYPTO_IMPLEMENTATION))

----------------------------------------------------------------------------
(* CredentialEntity.ts: the cache key codec *)

\* Faulty variant: it joins the two fields and lowercases nothing.
generateAccountIdForCacheKey_NoLowerCase(homeAccountId, environment) ==
    join(<<homeAccountId, environment>>, CACHE_KEY_SEPARATOR)

generateAccountIdForCacheKey(homeAccountId, environment) ==
    LET accountId == <<homeAccountId, environment>>
    IN  toLowerCase(join(accountId, CACHE_KEY_SEPARATOR))

\* Faulty variant: it never uses the family id.
ClientOrFamilyId_ClientOnly(credentialType, clientId, familyId) == clientId

\* Faulty variant: it applies the family id to every credential type.
ClientOrFamilyId_AnyType(credentialType, clientId, familyId) ==
    OrElse(familyId, clientId)

ClientOrFamilyId(credentialType, clientId, familyId) ==
    IF credentialType = REFRESH_TOKEN
    THEN OrElse(familyId, clientId)
    ELSE clientId

generateCredentialIdForCacheKey(credentialType, clientId, realm, familyId) ==
    LET clientOrFamilyId == ClientOrFamilyId(credentialType, clientId, familyId)
        credentialId == <<credentialType, clientOrFamilyId, OrElse(realm, EmptyString)>>
    IN  toLowerCase(join(credentialId, CACHE_KEY_SEPARATOR))

\* String.prototype.indexOf: the 0-based index of the first occurrence, or -1.
indexOf(s, sub) ==
    LET at == { i \in 1..(Len(s) - Len(sub) + 1) : SubSeq(s, i, i + Len(sub) - 1) = sub }
    IN  IF at = {} THEN -1 ELSE (CHOOSE i \in at : \A j \in at : i <= j) - 1

\* Faulty variant: it looks for IdToken before AccessToken.
getCredentialType_IdFirst(key) ==
    IF indexOf(key, ID_TOKEN) # -1 THEN ID_TOKEN
    ELSE IF indexOf(key, ACCESS_TOKEN) # -1 THEN ACCESS_TOKEN
    ELSE IF indexOf(key, REFRESH_TOKEN) # -1 THEN REFRESH_TOKEN
    ELSE NOT_DEFINED

getCredentialType(key) ==
    IF indexOf(key, ACCESS_TOKEN) # -1 THEN ACCESS_TOKEN
    ELSE IF indexOf(key, ID_TOKEN) # -1 THEN ID_TOKEN
    ELSE IF indexOf(key, REFRESH_TOKEN) # -1 THEN REFRESH_TOKEN
    ELSE NOT_DEFINED

\* Faulty variant: it leaves the scopes out of the key.
generateTargetForCacheKey_NoScopes(scopes) == EmptyString

generateTargetForCacheKey(scopes) ==
    toLowerCase(OrElse(scopes, EmptyString))

\* Faulty variant: it leaves the target component out when there are no scopes.
CredentialKeyParts_OmitEmpty(homeAccountId, environment, credentialType, clientId, realm, target, familyId) ==
    << generateAccountIdForCacheKey(homeAccountId, environment),
       generateCredentialIdForCacheKey(credentialType, clientId, realm, familyId) >>
    \o (IF Falsy(target) THEN << >> ELSE << generateTargetForCacheKey(target) >>)

\* The credentialKey array built at the top of generateCredentialCacheKey.
CredentialKeyParts(homeAccountId, environment, credentialType, clientId, realm, target, familyId) ==
    << generateAccountIdForCacheKey(homeAccountId, environment),
       generateCredentialIdForCacheKey(credentialType, clientId, realm, familyId),
       generateTargetForCacheKey(target) >>

\* Faulty variant: it joins the raw fields and lowercases nothing.
generateCredentialCacheKey_NoLowerCase(homeAccountId, environment, credentialType, clientId, realm, target, familyId) ==
    join(<<homeAccountId, environment, credentialType,
           ClientOrFamilyId(credentialType, clientId, familyId),
           OrElse(realm, EmptyString), OrElse(target, EmptyString)>>,
         CACHE_KEY_SEPARATOR)

generateCredentialCacheKey(homeAccountId, environment, credentialType, clientId, realm, target, familyId) ==
    LET parts == CredentialKeyParts(homeAccountId, environment, credentialType,
                                    clientId, realm, target, familyId)
    IN  toLowerCase(join(parts, CACHE_KEY_SEPARATOR))

\* Faulty variant: it forgets to pass this.familyId.
generateCredentialKey_NoFamily(e) ==
    generateCredentialCacheKey(e.homeAccountId, e.environment, e.credentialType,
                               e.clientId, e.realm, e.target, Undefined)

\* entity.generateCredentialKey()
generateCredentialKey(e) ==
    generateCredentialCacheKey(e.homeAccountId, e.environment, e.credentialType,
                               e.clientId, e.realm, e.target, e.familyId)

\* entity.generateCredentialId()
generateCredentialId(e) ==
    generateCredentialIdForCacheKey(e.credentialType, e.clientId, e.realm, e.familyId)

----------------------------------------------------------------------------
(* The codec applied to one entity: entity.generateCredentialKey() *)

CodecHomeAccountIds == { <<"u">>, <<"U">>, <<"u","-","v">> }
CodecEnvironments == { <<"e">>, <<"E">>, <<"v","-","e">> }
CodecClientIds == { <<"A">>, <<"b">> }
CodecFamilyIds == { Undefined, EmptyString, <<"F">> }
CodecRealms == { Undefined, <<"r">>, <<"R">> }
CodecTargets == { Undefined, <<"s">>, <<"S"," ","t">> }

\* class CredentialEntity: the fields of a credential record.
CredentialEntity(homeAccountId, environment, credentialType, clientId, secret, familyId, realm, target) ==
    [ homeAccountId |-> homeAccountId, environment |-> environment,
      credentialType |-> credentialType, clientId |-> clientId, secret |-> secret,
      familyId |-> familyId, realm |-> realm, target |-> target ]

CodecEntities ==
    { CredentialEntity(h, e, t, c, <<"x">>, f, r, g) :
        h \in CodecHomeAccountIds, e \in CodecEnvironments, t \in CredentialType,
        c \in CodecClientIds, f \in CodecFamilyIds, r \in CodecRealms,
        g \in CodecTargets }

NumWriters == 2

Writers == 1..NumWriters

\* No writer has a backend write in preparation.
NoPending == [w \in Writers |-> None]

NoOp == [op |-> "none", arg |-> << >>, before |-> {}, result |-> [threw |-> FALSE, entities |-> {}]]

NumCalls == 2

CallIds == 1..NumCalls

NoOutcome == [ error |-> [ type |-> "none", code |-> Undefined, description |-> Undefined ],
               result |-> None ]

ClientIdle ==
    /\ pc = [c \in CallIds |-> "idle"]
    /\ request = [c \in CallIds |-> None]
    /\ response = [c \in CallIds |-> None]
    /\ outcome = [c \in CallIds |-> NoOutcome]
    /\ trace = [c \in CallIds |-> << >>]
    /\ posts = [c \in CallIds |-> 0]
    /\ configuration = DefaultConfiguration
    /\ config = buildClientConfiguration(configuration)

CacheIdle ==
    /\ store = {}
    /\ lastOp = NoOp
    /\ lastSet = None
    /\ lastWritten = {}
    /\ pending = NoPending

CodecInit ==
    /\ entity \in CodecEntities
    /\ keyParts = << >>
    /\ credentialKey = EmptyString
    /\ pcCodec = "start"
    /\ classified = Undefined
    /\ CacheIdle
    /\ ClientIdle

\* entity.generateCredentialKey(), with the component array it joins.
GenerateCredentialKey ==
    /\ pcCodec = "start"
    /\ keyParts' = CredentialKeyParts(entity.homeAccountId, entity.environment,
                                      entity.credentialType, entity.clientId,
                                      entity.realm, entity.target, entity.familyId)
    /\ credentialKey' = generateCredentialKey(entity)
    /\ pcCodec' = "done"
    /\ UNCHANGED <<entity, classified, store, lastOp, lastSet, lastWritten, pending>>
    /\ UNCHANGED clientVars

CodecNext == GenerateCredentialKey

SpecCodec == CodecInit /\ [][CodecNext]_vars

----------------------------------------------------------------------------
(* The classification of a cache key: CredentialEntity.getCredentialType(key) *)

\* The keys handed to getCredentialType: a prefix, a type name as declared or
\* as the codec lowercases it (or a part of one, or nothing), and a suffix;
\* prefix and suffix may hold a type name of their own.
ClassifyKeys ==
    { a \o b \o c :
        a \in { EmptyString, <<"u","-","e","-">>, ID_TOKEN \o <<"-">>, REFRESH_TOKEN \o <<"-">> },
        b \in CredentialType \cup { toLowerCase(t) : t \in CredentialType }
                \cup { EmptyString, <<"T","o","k","e","n">> },
        c \in { EmptyString, <<"-","c","-","r","-","s">>, ACCESS_TOKEN, <<"-">> \o ID_TOKEN } }

ClassifyInit ==
    /\ entity = None
    /\ keyParts = << >>
    /\ credentialKey \in ClassifyKeys
    /\ pcCodec = "done"
    /\ classified = Undefined
    /\ CacheIdle
    /\ ClientIdle

\* CredentialEntity.getCredentialType(credentialKey)
GetCredentialType ==
    /\ pcCodec = "done"
    /\ classified' = getCredentialType(credentialKey)
    /\ pcCodec' = "classified"
    /\ UNCHANGED <<entity, keyParts, credentialKey>>
    /\ UNCHANGED <<cacheVars, clientVars>>

SpecClassify == ClassifyInit /\ [][GetCredentialType]_vars

\* The key generated for an entity handed to getCredentialType.
SpecRoundTrip == CodecInit /\ [][GenerateCredentialKey \/ GetCredentialType]_vars

----------------------------------------------------------------------------
(* Cache manager: a flat key-value store with lookup by filter *)

MaxStore == 2

Malformed == [schema |-> "Malformed"]

\* A stored item: the cache key, the schema type it was stored as, the value.
StoreItem(key, schema, value) == [key |-> key, schema |-> schema, value |-> value]

StoreKeys(st) == { item.key : item \in st }

\* The ScopeSet of a target string: its space-separated scopes, lowercased.
ScopeSet(target) ==
    IF target = Undefined THEN {}
    ELSE LET t == toLowerCase(target)
         IN  { SubSeq(t, i, j) : <<i, j>> \in
                 { ij \in (1..Len(t)) \X (1..Len(t)) :
                     /\ ij[1] <= ij[2]
                     /\ \A k \in ij[1]..ij[2] : t[k] # " "
                     /\ (ij[1] = 1 \/ t[ij[1] - 1] = " ")
                     /\ (ij[2] = Len(t) \/ t[ij[2] + 1] = " ") } }

\* Faulty variant: it matches when the stored scopes are a subset of the requested.
matchTarget_Subset(e, target) == ScopeSet(e.target) \subseteq ScopeSet(target)

\* Case-insensitive scope-subset matching of the target filter.
matchTarget(e, target) == ScopeSet(target) \subseteq ScopeSet(e.target)

\* An unset filter field matches anything, a set one must equal the field.
matchField(field, wanted) == wanted = Undefined \/ field = wanted

credentialMatches(e, filter) ==
    /\ matchField(e.homeAccountId, filter.homeAccountId)
    /\ matchField(e.environment, filter.environment)
    /\ matchField(e.credentialType, filter.credentialType)
    /\ matchField(e.clientId, filter.clientId)
    /\ matchField(e.familyId, filter.familyId)
    /\ matchField(e.realm, filter.realm)
    /\ (filter.target = Undefined \/ matchTarget(e, filter.target))

\* Faulty variant: it matches an account as soon as one provided field is equal.
accountMatches_AnyField(a, filter) ==
    \/ (filter.homeAccountId # Undefined /\ a.homeAccountId = filter.homeAccountId)
    \/ (filter.environment # Undefined /\ a.environment = filter.environment)
    \/ (filter.realm # Undefined /\ a.tenantId = filter.realm)
    \/ (filter.homeAccountId = Undefined /\ filter.environment = Undefined
          /\ filter.realm = Undefined)

accountMatches(a, filter) ==
    /\ matchField(a.homeAccountId, filter.homeAccountId)
    /\ matchField(a.environment, filter.environment)
    /\ matchField(a.tenantId, filter.realm)

LookupResult(threw, entities) == [threw |-> threw, entities |-> entities]

\* Faulty variant: it parses every stored value and throws on a malformed one.
getCredentialsFilteredBy_Throws(st, filter) ==
    IF \E item \in st : item.schema = "Malformed"
    THEN LookupResult(TRUE, {})
    ELSE LookupResult(FALSE, { item.value : item \in
             { i \in st : i.schema = "Credential" /\ credentialMatches(i.value, filter) } })

\* Linear scan of the stored items; a malformed value is skipped as a miss.
getCredentialsFilteredBy(st, filter) ==
    LookupResult(FALSE, { item.value : item \in
        { i \in st : i.schema = "Credential" /\ credentialMatches(i.value, filter) } })

getAccountsFilteredBy(st, filter) ==
    LookupResult(FALSE, { item.value : item \in
        { i \in st : i.schema = "Account" /\ accountMatches(i.value, filter) } })

\* Faulty variant: it appends the item and leaves an earlier one under the key.
setItem_Append(st, key, schema, value) == st \cup { StoreItem(key, schema, value) }

\* Faulty variant: it updates the stored value field by field and keeps the old
\* value of every field the new entity leaves unset.
setItem_Merge(st, key, schema, value) ==
    LET old == { item \in st : item.key = key /\ item.schema = schema }
    IN  IF old = {} \/ schema \notin { "Account", "Credential" }
        THEN { item \in st : item.key # key } \cup { StoreItem(key, schema, value) }
        ELSE LET was == (CHOOSE item \in old : TRUE).value
             IN  { item \in st : item.key # key } \cup
                 { StoreItem(key, schema,
                       [ k \in DOMAIN value |->
                           IF value[k] = Undefined /\ k \in DOMAIN was THEN was[k]
                           ELSE value[k] ]) }

\* Backend set: upsert, the value under the key is replaced as a whole.
setItem(st, key, schema, value) ==
    { item \in st : item.key # key } \cup { StoreItem(key, schema, value) }

\* Backend remove: delete by key, nothing happens when the key is absent.
removeItem(st, key) == { item \in st : item.key # key }

\* What a remove yields: the store it leaves and whether it threw.
Removal(st, threw) == [store |-> st, threw |-> threw]

\* Faulty variant: it throws when no item is stored under the key.
removeByKey_Strict(st, key) == Removal(removeItem(st, key), key \notin StoreKeys(st))

\* removeAccount/removeCredential: delete by key, a silent no-op when absent.
removeByKey(st, key) == Removal(removeItem(st, key), FALSE)

setCredential(st, e) == setItem(st, generateCredentialKey(e), "Credential", e)

\* getCredential: the credentials stored under the key, none when absent.
getCredential(st, key) ==
    { item.value : item \in { i \in st : i.key = key /\ i.schema = "Credential" } }

removeCredential(st, e) == removeByKey(st, generateCredentialKey(e))

\* AccountEntity: the account key is <homeAccountId>-<environment>, lowercased.
AccountEntity(homeAccountId, environment, tenantId, username) ==
    [ homeAccountId |-> homeAccountId, environment |-> environment,
      tenantId |-> tenantId, username |-> username ]

generateAccountKey(a) == generateAccountIdForCacheKey(a.homeAccountId, a.environment)

setAccount(st, a) == setItem(st, generateAccountKey(a), "Account", a)

removeAccount(st, a) == removeByKey(st, generateAccountKey(a))

----------------------------------------------------------------------------
(* The cache manager driven by an application: SpecCache *)

CacheAccessTokens ==
    { CredentialEntity(<<"u">>, <<"e">>, ACCESS_TOKEN, <<"c">>, x[1], Undefined, x[2], x[3]) :
        x \in { << <<"x">>, Undefined, <<"a"," ","b">> >>,
                << <<"y">>, Undefined, <<"a"," ","b">> >>,
                << <<"x">>, Undefined, <<"A"," ","B">> >>,
                << <<"x">>, Undefined, <<"a"," ","b"," ","c">> >>,
                << <<"x">>, <<"r">>, <<"a"," ","b"," ","c">> >> } }

CacheRefreshTokens ==
    { CredentialEntity(<<"u">>, <<"e">>, REFRESH_TOKEN, x[1], x[2], x[3], Undefined, Undefined) :
        x \in { << <<"c">>, <<"x">>, <<"f">> >>,
                << <<"d">>, <<"y">>, <<"f">> >>,
                << <<"c">>, <<"x">>, Undefined >> } }

CacheIdTokens ==
    { CredentialEntity(<<"u">>, <<"e">>, ID_TOKEN, <<"c">>, <<"x">>, Undefined, <<"r">>, Undefined) }

CachePool == CacheAccessTokens \cup CacheRefreshTokens \cup CacheIdTokens

AccountPool ==
    { AccountEntity(<<"u">>, <<"e">>, t, <<"n">>) : t \in { <<"r">>, <<"q">> } }

CredentialFilter(homeAccountId, environment, credentialType, clientId, familyId, realm, target) ==
    [ homeAccountId |-> homeAccountId, environment |-> environment,
      credentialType |-> credentialType, clientId |-> clientId,
      familyId |-> familyId, realm |-> realm, target |-> target ]

\* The filter made of an entity's exact identifying fields.
FilterOf(e) ==
    CredentialFilter(e.homeAccountId, e.environment, e.credentialType, e.clientId,
                     e.familyId, e.realm, e.target)

CredentialFilters ==
    { FilterOf(e) : e \in CachePool } \cup
    { CredentialFilter(Undefined, Undefined, t, Undefined, Undefined, Undefined, g) :
        t \in { ACCESS_TOKEN },
        g \in { Undefined, <<"b"," ","a">>, <<"a"," ","b"," ","c">>, <<"c">> } }

AccountFilter(homeAccountId, environment, realm) ==
    [ homeAccountId |-> homeAccountId, environment |-> environment, realm |-> realm ]

AccountFilters ==
    { AccountFilter(<<"u">>, Undefined, r) : r \in { Undefined, <<"r">> } }

Op(op, arg, before, result) == [op |-> op, arg |-> arg, before |-> before, result |-> result]

NoResult == LookupResult(FALSE, {})

CodecIdle ==
    /\ entity = None
    /\ keyParts = << >>
    /\ credentialKey = EmptyString
    /\ pcCodec = "idle"
    /\ classified = Undefined

CacheInit ==
    /\ store = {}
    /\ lastOp = NoOp
    /\ lastSet = None
    /\ lastWritten = {}
    /\ pending = NoPending
    /\ CodecIdle
    /\ ClientIdle

\* The key the codec assigns to an entity's fields (the static function).
CacheKeyOf(e) ==
    generateCredentialCacheKey(e.homeAccountId, e.environment, e.credentialType,
                               e.clientId, e.realm, e.target, e.familyId)

SetCredential(e) ==
    LET key == generateCredentialKey(e)
        staticKey == CacheKeyOf(e)
    IN  /\ Cardinality(StoreKeys(store) \cup { key }) <= MaxStore
        /\ store' = setCredential(store, e)
        /\ lastOp' = Op("setCredential", e, { item \in store : item.key = key }, NoResult)
        /\ lastSet' = e
        /\ lastWritten' = { w \in lastWritten : w.key # staticKey }
                            \cup { [key |-> staticKey, value |-> e] }
        /\ UNCHANGED <<codecVars, clientVars, pending>>

SetAccount(a) ==
    LET key == generateAccountKey(a)
    IN  /\ Cardinality(StoreKeys(store) \cup { key }) <= MaxStore
        /\ store' = setAccount(store, a)
        /\ lastOp' = Op("setAccount", a, { item \in store : item.key = key }, NoResult)
        /\ UNCHANGED <<lastSet, lastWritten>>
        /\ UNCHANGED <<codecVars, clientVars, pending>>

RemoveCredential(e) ==
    LET removal == removeCredential(store, e)
        staticKey == CacheKeyOf(e)
    IN  /\ store' = removal.store
        /\ lastOp' = Op("removeCredential", generateCredentialKey(e), {},
                        LookupResult(removal.threw, {}))
        /\ lastSet' = None
        /\ lastWritten' = { w \in lastWritten : w.key # staticKey }
        /\ UNCHANGED <<codecVars, clientVars, pending>>

\* The backend's value under a stored key becomes unparsable.
CorruptItem(key) ==
    /\ key \in StoreKeys(store)
    /\ \E item \in store : item.key = key /\ item.schema # "Malformed"
    /\ store' = setItem(store, key, "Malformed", Malformed)
    /\ lastOp' = Op("corrupt", key, {}, NoResult)
    /\ lastSet' = None
    /\ UNCHANGED lastWritten
    /\ UNCHANGED <<codecVars, clientVars, pending>>

GetCredentialsFilteredBy(filter) ==
    /\ lastOp' = Op("getCredentialsFilteredBy", filter, store,
                    getCredentialsFilteredBy(store, filter))
    /\ UNCHANGED <<store, lastSet, lastWritten>>
    /\ UNCHANGED <<codecVars, clientVars, pending>>

GetAccountsFilteredBy(filter) ==
    /\ lastOp' = Op("getAccountsFilteredBy", filter, store,
                    getAccountsFilteredBy(store, filter))
    /\ UNCHANGED <<store, lastSet, lastWritten>>
    /\ UNCHANGED <<codecVars, clientVars, pending>>

CacheNext ==
    \/ \E e \in CachePool : SetCredential(e)
    \/ \E a \in AccountPool : SetAccount(a)
    \/ \E e \in CachePool : RemoveCredential(e)
    \/ \E key \in StoreKeys(store) : CorruptItem(key)
    \/ \E filter \in CredentialFilters : GetCredentialsFilteredBy(filter)
    \/ \E filter \in AccountFilters : GetAccountsFilteredBy(filter)

SpecCache == CacheInit /\ [][CacheNext]_vars

----------------------------------------------------------------------------
(* Accounts and their credentials in the cache manager: SpecAccounts *)

\* The account uid.utid at login.microsoftonline.com, tenant utid, a@b.com.
ExampleAccount ==
    AccountEntity(<<"u","i","d",".","u","t","i","d">>,
                  <<"l","o","g","i","n",".","m","i","c","r","o","s","o","f","t","o","n","l","i","n","e",".","c","o","m">>,
                  <<"u","t","i","d">>, <<"a","@","b",".","c","o","m">>)

\* The accounts an application signs in: the same home account in two tenants
\* and under two names, home accounts and hosts that differ in letter case.
KnownAccounts ==
    { ExampleAccount,
      AccountEntity(ExampleAccount.homeAccountId, ExampleAccount.environment, <<"q">>, <<"m">>),
      AccountEntity(<<"u">>, <<"e">>, <<"r">>, <<"n">>),
      AccountEntity(<<"u">>, <<"e">>, <<"q">>, <<"m">>),
      AccountEntity(<<"U">>, <<"e">>, <<"r">>, <<"n">>),
      AccountEntity(<<"u">>, <<"E">>, <<"q">>, <<"n">>),
      AccountEntity(<<"w">>, <<"e">>, <<"r">>, <<"n">>) }

\* The credentials stored beside them: an access token, and the refresh
\* tokens of the clients c and d of one family.
KnownCredentials ==
    { CredentialEntity(<<"u">>, <<"e">>, ACCESS_TOKEN, <<"c">>, <<"x">>, Undefined,
                       <<"r">>, <<"a"," ","b">>),
      CredentialEntity(<<"u">>, <<"e">>, REFRESH_TOKEN, <<"c">>, <<"x">>, <<"f">>,
                       Undefined, Undefined),
      CredentialEntity(<<"u">>, <<"e">>, REFRESH_TOKEN, <<"d">>, <<"y">>, <<"f">>,
                       Undefined, Undefined) }

KnownAccountFilters ==
    { AccountFilter(h, e, r) :
        h \in { Undefined, ExampleAccount.homeAccountId, <<"u">> },
        e \in { Undefined, <<"e">> },
        r \in { Undefined, <<"r">> } }

RemoveAccount(a) ==
    LET key == generateAccountKey(a)
        removal == removeAccount(store, a)
    IN  /\ store' = removal.store
        /\ lastOp' = Op("removeAccount", key, { item \in store : item.key = key },
                        LookupResult(removal.threw, {}))
        /\ UNCHANGED <<lastSet, lastWritten>>
        /\ UNCHANGED <<codecVars, clientVars, pending>>

SpecAccounts ==
    CacheInit /\ [][ \/ \E a \in KnownAccounts : SetAccount(a)
                     \/ \E a \in KnownAccounts : RemoveAccount(a)
                     \/ \E e \in KnownCredentials : SetCredential(e)
                     \/ \E e \in KnownCredentials : RemoveCredential(e)
                     \/ \E filter \in KnownAccountFilters : GetAccountsFilteredBy(filter) ]_vars

----------------------------------------------------------------------------
(* Response handler: from a server token response to cache writes *)

\* The authority of the client: token endpoint, environment (host), tenant.
Authority == [ tokenEndpoint |-> <<"t">>, canonicalAuthorityHost |-> <<"e">>, tenant |-> <<"r">> ]

\* config.authOptions.clientId
ClientId == <<"c">>

ServerError(error, description) ==
    [ type |-> "ServerError", code |-> error, description |-> description ]

ClientAuthError(code) ==
    [ type |-> "ClientAuthError", code |-> code, description |-> Undefined ]

NoError == [ type |-> "none", code |-> Undefined, description |-> Undefined ]

\* Step 1: the error validateTokenResponse throws, NoError when it returns.
validateTokenResponse(body) ==
    IF ~ Falsy(body.error)
    THEN ServerError(body.error, body.error_description)
    ELSE IF body.access_token = Undefined /\ body.id_token = None
    THEN ClientAuthError(<<"InvalidResponse">>)
    ELSE NoError

\* Step 2: the claims of the ID token; base64 decoding and JSON parsing are
\* the crypto collaborator's, an undecodable token has malformed claims.
IdTokenClaims(tid, oid, sub, username, name) ==
    [ tid |-> tid, oid |-> oid, sub |-> sub, preferred_username |-> username, name |-> name ]

IdToken(raw, claims) == [ raw |-> raw, claims |-> claims ]

ClientInfo(uid, utid) == [ uid |-> uid, utid |-> utid ]

\* Faulty variant: it is the separator of the cache key.
CLIENT_INFO_SEPARATOR_Dash == <<"-">>

CLIENT_INFO_SEPARATOR == <<".">>

\* Step 3: the home account id, Undefined when no identity is resolvable.
resolveHomeAccountId(body) ==
    IF body.client_info # None
    THEN body.client_info.uid \o CLIENT_INFO_SEPARATOR \o body.client_info.utid
    ELSE IF body.id_token # None /\ ~ Falsy(OrElse(body.id_token.claims.sub, body.id_token.claims.oid))
    THEN OrElse(body.id_token.claims.sub, body.id_token.claims.oid)
    ELSE Undefined

CharRank(c) ==
    IF \E i \in DOMAIN LowerChars : LowerChars[i] = c
    THEN CHOOSE i \in DOMAIN LowerChars : LowerChars[i] = c
    ELSE 0

\* String comparison by code unit, as Array.prototype.sort does.
StringLess(a, b) ==
    \E k \in 0..Len(a) :
        /\ k <= Len(b)
        /\ \A i \in 1..k : a[i] = b[i]
        /\ \/ (k = Len(a) /\ k < Len(b))
           \/ (k < Len(a) /\ k < Len(b) /\ CharRank(a[k + 1]) < CharRank(b[k + 1]))

RECURSIVE SortStrings(_)
SortStrings(S) ==
    IF S = {} THEN << >>
    ELSE LET least == CHOOSE x \in S : \A y \in S : x = y \/ StringLess(x, y)
         IN  <<least>> \o SortStrings(S \ {least})

\* The target of an access token: the scopes lowercased, sorted, space-joined.
normalizeScopes(scope) == join(SortStrings(ScopeSet(scope)), <<" ">>)

\* AppMetadataEntity: keyed by <clientId>-<environment>, holds the family id.
generateAppMetadataKey(clientId, environment) ==
    toLowerCase(join(<<clientId, environment>>, CACHE_KEY_SEPARATOR))

getAppMetadataFamilyId(st, clientId, environment) ==
    LET found == { item \in st : item.schema = "AppMetadata"
                                  /\ item.key = generateAppMetadataKey(clientId, environment) }
    IN  IF found = {} THEN Undefined ELSE (CHOOSE item \in found : TRUE).value.familyId

\* A cache write of step 4: the schema type and the entity.
Write(schema, value) == [ schema |-> schema, value |-> value ]

applyWrite(st, w) ==
    IF w.schema = "Account" THEN setAccount(st, w.value) ELSE setCredential(st, w.value)

RECURSIVE applyWrites(_, _)
applyWrites(st, writes) ==
    IF writes = << >> THEN st
    ELSE applyWrites(applyWrite(st, Head(writes)), Tail(writes))

\* Step 4: the entities of one response, in the order they are written.
responseWrites(st, body, authority, homeAccountId) ==
    LET env == authority.canonicalAuthorityHost
        account == IF body.id_token = None THEN << >>
                   ELSE << Write("Account",
                              AccountEntity(homeAccountId, env, body.id_token.claims.tid,
                                            body.id_token.claims.preferred_username)) >>
        idToken == IF body.id_token = None THEN << >>
                   ELSE << Write("Credential",
                              CredentialEntity(homeAccountId, env, ID_TOKEN, ClientId,
                                               body.id_token.raw, Undefined,
                                               authority.tenant, Undefined)) >>
        accessToken == IF body.access_token = Undefined THEN << >>
                       ELSE << Write("Credential",
                                  CredentialEntity(homeAccountId, env, ACCESS_TOKEN, ClientId,
                                                   body.access_token, Undefined,
                                                   authority.tenant, normalizeScopes(body.scope))) >>
        refreshToken == IF body.refresh_token = Undefined THEN << >>
                        ELSE << Write("Credential",
                                   CredentialEntity(homeAccountId, env, REFRESH_TOKEN, ClientId,
                                                    body.refresh_token,
                                                    getAppMetadataFamilyId(st, ClientId, env),
                                                    Undefined, Undefined)) >>
    IN  account \o idToken \o accessToken \o refreshToken

\* Step 5: the AuthenticationResult, a value copied from the response.
AuthenticationResult(body, authority, homeAccountId) ==
    [ accessToken |-> body.access_token,
      idToken |-> IF body.id_token = None THEN Undefined ELSE body.id_token.raw,
      account |-> [ homeAccountId |-> homeAccountId,
                    environment |-> authority.canonicalAuthorityHost,
                    tenantId |-> IF body.id_token = None THEN Undefined
                                 ELSE body.id_token.claims.tid,
                    username |-> IF body.id_token = None THEN Undefined
                                 ELSE body.id_token.claims.preferred_username ],
      scopes |-> ScopeSet(body.scope),
      expiresOn |-> body.expires_in ]

\* What a run of the handler yields: the store, the error thrown (NoError
\* when it returned), the result, and the writes done, in order.
Handled(st, error, result, writes) ==
    [ store |-> st, error |-> error, result |-> result, writes |-> writes ]

\* Faulty variant: it writes the response's entities before it fails on the ID token
\* or the home account id.
handleServerTokenResponse_WriteFirst(st, body, authority) ==
    LET home == resolveHomeAccountId(body)
        writes == IF body.id_token # None /\ body.id_token.claims = Malformed
                  THEN responseWrites(st, [body EXCEPT !.id_token = None], authority,
                                      OrElse(home, <<"?">>))
                  ELSE responseWrites(st, body, authority, OrElse(home, <<"?">>))
    IN  IF body.id_token # None /\ body.id_token.claims = Malformed
        THEN Handled(applyWrites(st, writes), ClientAuthError(<<"InvalidIdToken">>), None, writes)
        ELSE IF home = Undefined
        THEN Handled(applyWrites(st, writes), ClientAuthError(<<"NoHomeAccountId">>), None, writes)
        ELSE Handled(applyWrites(st, writes), NoError,
                     AuthenticationResult(body, authority, home), writes)

\* Steps 2 to 5 of the pipeline.
handleServerTokenResponse(st, body, authority) ==
    IF body.id_token # None /\ body.id_token.claims = Malformed
    THEN Handled(st, ClientAuthError(<<"InvalidIdToken">>), None, << >>)
    ELSE LET home == resolveHomeAccountId(body)
         IN  IF home = Undefined
             THEN Handled(st, ClientAuthError(<<"NoHomeAccountId">>), None, << >>)
             ELSE LET writes == responseWrites(st, body, authority, home)
                  IN  Handled(applyWrites(st, writes), NoError,
                              AuthenticationResult(body, authority, home), writes)

----------------------------------------------------------------------------
(* Writers that share one persisted cache: SpecWriters *)

\* What writer w writes: an access token and an account. The writers agree on
\* the cache keys and differ in letter case, family id, tenant and in the
\* secret and the username, which name the writer.
WriterWrites(w) ==
    LET tag == << LowerChars[w] >>
        odd == w % 2 = 1
        home == IF odd THEN <<"u">> ELSE <<"U">>
    IN  { Write("Credential",
                CredentialEntity(home, <<"e">>, ACCESS_TOKEN, <<"c">>, tag,
                                 IF odd THEN Undefined ELSE <<"f">>, <<"r">>,
                                 IF odd THEN <<"s">> ELSE <<"S">>)),
          Write("Account",
                AccountEntity(home, <<"e">>, IF odd THEN <<"r">> ELSE <<"q">>, tag)) }

\* setCredential/setAccount, first half: the writer computes the entity's
\* cache key; nothing is stored yet.
PrepareSet(w, wr) ==
    /\ pending[w] = None
    /\ pending' = [pending EXCEPT ![w] =
                      StoreItem(IF wr.schema = "Account" THEN generateAccountKey(wr.value)
                                ELSE generateCredentialKey(wr.value),
                                wr.schema, wr.value)]
    /\ UNCHANGED <<store, lastOp, lastSet, lastWritten>>
    /\ UNCHANGED <<codecVars, clientVars>>

\* setCredential/setAccount, second half: the upsert in the shared backend.
BackendSet(w) ==
    /\ pending[w] # None
    /\ store' = setItem(store, pending[w].key, pending[w].schema, pending[w].value)
    /\ lastOp' = Op("setItem", pending[w], { item \in store : item.key = pending[w].key },
                    NoResult)
    /\ lastWritten' = { x \in lastWritten : x.key # pending[w].key }
                        \cup { [key |-> pending[w].key, value |-> pending[w].value] }
    /\ pending' = [pending EXCEPT ![w] = None]
    /\ UNCHANGED lastSet
    /\ UNCHANGED <<codecVars, clientVars>>

SpecWriters ==
    CacheInit /\ [][ \/ \E w \in Writers : \E wr \in WriterWrites(w) : PrepareSet(w, wr)
                     \/ \E w \in Writers : BackendSet(w) ]_vars

----------------------------------------------------------------------------
(* RefreshTokenClient.acquireToken: Spec *)

RefreshTokenRequest(scopes, refreshToken, correlationId) ==
    [ scopes |-> scopes, refreshToken |-> refreshToken, correlationId |-> correlationId ]

Requests ==
    { RefreshTokenRequest(g, <<"z">>, Undefined) : g \in { <<"B"," ","a">>, <<"a"," ","b">> } }

\* createTokenRequestBody: the parameters of the POST body.
createTokenRequestBody(req) ==
    [ client_id |-> ClientId,
      scope |-> req.scopes,
      grant_type |-> "refresh_token",
      client_info |-> "1",
      client_request_id |-> OrElse(req.correlationId, <<"n">>),
      refresh_token |-> req.refreshToken ]

\* ServerAuthorizationTokenResponse
TokenResponse(error, description, accessToken, idToken, refreshToken, clientInfo, scope) ==
    [ error |-> error, error_description |-> description, access_token |-> accessToken,
      id_token |-> idToken, refresh_token |-> refreshToken, client_info |-> clientInfo,
      scope |-> scope, expires_in |-> 3600 ]

GoodClaims == IdTokenClaims(<<"r">>, <<"o">>, <<"s">>, <<"n">>, <<"m">>)
AnonymousClaims == IdTokenClaims(<<"r">>, Undefined, Undefined, <<"n">>, <<"m">>)
GoodIdToken == IdToken(<<"i">>, GoodClaims)
AnonymousIdToken == IdToken(<<"i">>, AnonymousClaims)
BadIdToken == IdToken(<<"i">>, Malformed)
GoodClientInfo == ClientInfo(<<"u">>, <<"v">>)

\* The bodies the token endpoint may answer a request with.
ServerBodies(req) ==
    { TokenResponse(b[1], b[2], b[3], b[4], b[5], b[6], req.scopes) :
        b \in { << <<"g">>, <<"d">>, Undefined, None, Undefined, None >>,
                << <<"g">>, <<"d">>, <<"x">>, GoodIdToken, <<"z">>, GoodClientInfo >>,
                << <<"g">>, <<"d">>, <<"x">>, BadIdToken, <<"z">>, GoodClientInfo >>,
                << Undefined, Undefined, Undefined, None, <<"z">>, GoodClientInfo >>,
                << Undefined, Undefined, <<"x">>, GoodIdToken, <<"z">>, GoodClientInfo >>,
                << Undefined, Undefined, <<"y">>, None, Undefined, GoodClientInfo >>,
                << Undefined, Undefined, <<"x">>, BadIdToken, <<"z">>, GoodClientInfo >>,
                << Undefined, Undefined, <<"x">>, None, Undefined, None >>,
                << Undefined, Undefined, <<"x">>, GoodIdToken, Undefined, None >>,
                << Undefined, Undefined, <<"x">>, AnonymousIdToken, <<"z">>, None >>,
                << Undefined, Undefined, <<"x">>,
                   IdToken(<<"i">>, IdTokenClaims(<<"r">>, <<"o">>, Undefined, <<"n">>, <<"m">>)),
                   Undefined, None >>,
                << Undefined, Undefined, Undefined, GoodIdToken, Undefined, GoodClientInfo >> } }

\* NetworkManager.sendPostRequest: the store it leaves. The manager holds the
\* cache manager, the network collaborator it posts through touches no cache.
sendPostRequest(st, thumbprint, tokenEndpoint, options) == st

\* createDefaultTokenRequestHeaders
createDefaultTokenRequestHeaders ==
    [ contentType |-> "application/x-www-form-urlencoded;charset=utf-8" ]

Event(name, arg) == [ name |-> name, arg |-> arg ]

WriteEvents(writes) ==
    [ i \in DOMAIN writes |->
        Event(IF writes[i].schema = "Account" THEN "setAccount" ELSE "setCredential",
              writes[i].value) ]

\* What acquireToken does once the awaited response is there.
Run(st, error, result, steps) ==
    [ store |-> st, error |-> error, result |-> result, steps |-> steps ]

\* Faulty variant: it hands the response to the handler before it validates it.
acquireToken_HandleFirst(st, body) ==
    LET h == handleServerTokenResponse(st, body, Authority)
        thrown == validateTokenResponse(body)
        handleSteps == <<Event("handleServerTokenResponse", None)>> \o WriteEvents(h.writes)
    IN  IF h.error # NoError
        THEN Run(h.store, h.error, None, handleSteps)
        ELSE IF thrown # NoError
        THEN Run(h.store, thrown, None,
                 handleSteps \o <<Event("validateTokenResponse", None)>>)
        ELSE Run(h.store, NoError, h.result,
                 handleSteps \o <<Event("validateTokenResponse", None)>>)

\* Faulty variant: it does not call validateTokenResponse.
acquireToken_NoValidate(st, body) ==
    LET h == handleServerTokenResponse(st, body, Authority)
    IN  Run(h.store, h.error, h.result,
            <<Event("handleServerTokenResponse", None)>> \o WriteEvents(h.writes))

\* Faulty variant: it hands the response to the handler a second time.
acquireToken_HandleTwice(st, body) ==
    LET thrown == validateTokenResponse(body)
    IN  IF thrown # NoError
        THEN Run(st, thrown, None, <<Event("validateTokenResponse", None)>>)
        ELSE LET h == handleServerTokenResponse(st, body, Authority)
                 again == handleServerTokenResponse(h.store, body, Authority)
             IN  Run(again.store, again.error, again.result,
                     <<Event("validateTokenResponse", None),
                       Event("handleServerTokenResponse", None)>> \o WriteEvents(h.writes)
                     \o <<Event("handleServerTokenResponse", None)>>
                     \o WriteEvents(again.writes))

\* acquireToken after the await: validateTokenResponse, then
\* handleServerTokenResponse; an error thrown by either rejects the call.
acquireToken(st, body) ==
    LET thrown == validateTokenResponse(body)
    IN  IF thrown # NoError
        THEN Run(st, thrown, None, <<Event("validateTokenResponse", None)>>)
        ELSE LET h == handleServerTokenResponse(st, body, Authority)
             IN  Run(h.store, h.error, h.result,
                     <<Event("validateTokenResponse", None),
                       Event("handleServerTokenResponse", None)>> \o WriteEvents(h.writes))

AppMetadataEntity(clientId, environment, familyId) ==
    [ clientId |-> clientId, environment |-> environment, familyId |-> familyId ]

\* The stores a client may be constructed over: empty, or holding the app
\* metadata that puts the client in a family.
InitialStores ==
    { {},
      { StoreItem(generateAppMetadataKey(ClientId, Authority.canonicalAuthorityHost),
                  "AppMetadata",
                  AppMetadataEntity(ClientId, Authority.canonicalAuthorityHost, <<"f">>)) } }

Init ==
    /\ store \in InitialStores
    /\ lastOp = NoOp
    /\ lastSet = None
    /\ lastWritten = {}
    /\ pending = NoPending
    /\ CodecIdle
    /\ ClientIdle

\* Faulty variant: the client stores the request's refresh token itself before
\* it sends the POST.
AcquireToken_CachesRequest(c, req) ==
    /\ pc[c] = "idle"
    /\ request' = [request EXCEPT ![c] = req]
    /\ posts' = [posts EXCEPT ![c] = posts[c] + 1]
    /\ trace' = [trace EXCEPT ![c] = <<Event("sendPostRequest", createTokenRequestBody(req))>>]
    /\ pc' = [pc EXCEPT ![c] = "awaiting"]
    /\ store' = setCredential(store,
                    CredentialEntity(<<"u">>, Authority.canonicalAuthorityHost, REFRESH_TOKEN,
                                     ClientId, req.refreshToken, Undefined, Undefined, Undefined))
    /\ UNCHANGED <<response, outcome, configVars>>
    /\ UNCHANGED <<codecVars, lastOp, lastSet, lastWritten, pending>>

\* What executeTokenRequest throws before a POST is sent: createNewGuid is
\* called for a request without correlationId, then the network interface's
\* sendPostRequestAsync; None when both are implemented.
executeTokenRequestThrows(cfg, req) ==
    IF Falsy(req.correlationId) /\ cfg.cryptoInterface.createNewGuid # None
    THEN cfg.cryptoInterface.createNewGuid
    ELSE cfg.networkInterface.sendPostRequestAsync

\* acquireToken up to the await: executeTokenRequest sends the POST; what a
\* collaborator throws on the way rejects the call.
AcquireToken(c, req) ==
    /\ pc[c] = "idle"
    /\ request' = [request EXCEPT ![c] = req]
    /\ IF executeTokenRequestThrows(config, req) # None
       THEN /\ outcome' = [outcome EXCEPT ![c] =
                               [ error |-> executeTokenRequestThrows(config, req),
                                 result |-> None ]]
            /\ trace' = [trace EXCEPT ![c] = <<Event("unexpectedError", None)>>]
            /\ pc' = [pc EXCEPT ![c] = "rejected"]
            /\ UNCHANGED <<posts, store>>
       ELSE /\ posts' = [posts EXCEPT ![c] = posts[c] + 1]
            /\ trace' = [trace EXCEPT ![c] =
                            <<Event("sendPostRequest", createTokenRequestBody(req))>>]
            /\ pc' = [pc EXCEPT ![c] = "awaiting"]
            /\ store' = sendPostRequest(store, None, Authority.tokenEndpoint,
                                        [ body |-> createTokenRequestBody(req),
                                          headers |-> createDefaultTokenRequestHeaders ])
            /\ UNCHANGED outcome
    /\ UNCHANGED <<response, configVars>>
    /\ UNCHANGED <<codecVars, lastOp, lastSet, lastWritten, pending>>

\* Faulty variant: the results returned earlier share the stored access token,
\* which this run's write changes in place.
NetworkRespond_Aliased(c, body) ==
    /\ pc[c] = "awaiting"
    /\ LET run == acquireToken(store, body)
       IN  /\ store' = run.store
           /\ response' = [response EXCEPT ![c] = body]
           /\ outcome' = [ d \in CallIds |->
                 IF d = c THEN [error |-> run.error, result |-> run.result]
                 ELSE IF pc[d] = "resolved" /\ run.error = NoError
                         /\ body.access_token # Undefined
                 THEN [outcome[d] EXCEPT !.result.accessToken = body.access_token]
                 ELSE outcome[d] ]
           /\ trace' = [trace EXCEPT ![c] = trace[c] \o <<Event("response", None)>> \o run.steps]
           /\ pc' = [pc EXCEPT ![c] = IF run.error = NoError THEN "resolved" ELSE "rejected"]
    /\ UNCHANGED <<request, posts, configVars>>
    /\ UNCHANGED <<codecVars, lastOp, lastSet, lastWritten, pending>>

\* The POST resolves with a response; acquireToken runs to its end.
NetworkRespond(c, body) ==
    /\ pc[c] = "awaiting"
    /\ LET run == acquireToken(store, body)
       IN  /\ store' = run.store
           /\ response' = [response EXCEPT ![c] = body]
           /\ outcome' = [outcome EXCEPT ![c] = [error |-> run.error, result |-> run.result]]
           /\ trace' = [trace EXCEPT ![c] = trace[c] \o <<Event("response", None)>> \o run.steps]
           /\ pc' = [pc EXCEPT ![c] = IF run.error = NoError THEN "resolved" ELSE "rejected"]
    /\ UNCHANGED <<request, posts, configVars>>
    /\ UNCHANGED <<codecVars, lastOp, lastSet, lastWritten, pending>>

\* Faulty variant: it catches the failure of the POST and goes on with an empty
\* response body.
NetworkFail_Swallowed(c) ==
    /\ pc[c] = "awaiting"
    /\ LET body == TokenResponse(Undefined, Undefined, Undefined, None, Undefined, None,
                                 request[c].scopes)
           run == acquireToken(store, body)
       IN  /\ store' = run.store
           /\ outcome' = [outcome EXCEPT ![c] = [error |-> run.error, result |-> run.result]]
           /\ trace' = [trace EXCEPT ![c] =
                           trace[c] \o <<Event("networkError", None)>> \o run.steps]
           /\ pc' = [pc EXCEPT ![c] = IF run.error = NoError THEN "resolved" ELSE "rejected"]
    /\ UNCHANGED <<request, response, posts, configVars>>
    /\ UNCHANGED <<codecVars, lastOp, lastSet, lastWritten, pending>>

\* Faulty variant: it sends the request once more when the POST fails for the
\* first time.
NetworkFail_Retry(c) ==
    /\ pc[c] = "awaiting"
    /\ IF posts[c] < 2
       THEN /\ posts' = [posts EXCEPT ![c] = posts[c] + 1]
            /\ trace' = [trace EXCEPT ![c] =
                            trace[c] \o <<Event("networkError", None),
                                          Event("sendPostRequest",
                                                createTokenRequestBody(request[c]))>>]
            /\ UNCHANGED <<outcome, pc>>
       ELSE /\ outcome' = [outcome EXCEPT ![c] =
                               [error |-> [type |-> "NetworkError", code |-> Undefined,
                                           description |-> Undefined],
                                result |-> None]]
            /\ trace' = [trace EXCEPT ![c] = trace[c] \o <<Event("networkError", None)>>]
            /\ pc' = [pc EXCEPT ![c] = "rejected"]
            /\ UNCHANGED posts
    /\ UNCHANGED <<request, response, store, configVars>>
    /\ UNCHANGED <<codecVars, lastOp, lastSet, lastWritten, pending>>

\* The POST fails, is cancelled or times out: the await throws.
NetworkFail(c) ==
    /\ pc[c] = "awaiting"
    /\ outcome' = [outcome EXCEPT ![c] =
                      [error |-> [type |-> "NetworkError", code |-> Undefined,
                                  description |-> Undefined],
                       result |-> None]]
    /\ trace' = [trace EXCEPT ![c] = trace[c] \o <<Event("networkError", None)>>]
    /\ pc' = [pc EXCEPT ![c] = "rejected"]
    /\ UNCHANGED <<request, response, posts, store, configVars>>
    /\ UNCHANGED <<codecVars, lastOp, lastSet, lastWritten, pending>>

Next ==
    \/ \E c \in CallIds : \E req \in Requests : AcquireToken(c, req)
    \/ \E c \in CallIds : \E req \in Requests : \E body \in ServerBodies(req) :
          req = request[c] /\ NetworkRespond(c, body)
    \/ \E c \in CallIds : NetworkFail(c)

Spec == Init /\ [][Next]_vars

----------------------------------------------------------------------------
(* Silent flow: the cache lookup with the renewal offset, SpecSilent *)

\* An access token entity with the timestamp derived from expires_in.
AccessTokenEntity(e, expiresOn) ==
    [ k \in DOMAIN e \cup { "expiresOn" } |-> IF k = "expiresOn" THEN expiresOn ELSE e[k] ]

\* The expiry check: a token within the offset window of its expiry is expired.
isTokenExpired(expiresOn, now, offset) == ~ (expiresOn - offset > now)

\* The configurations an application passes: no system options, telemetry
\* alone, or a renewal offset of its own.
Configurations ==
    { [ DefaultConfiguration EXCEPT !.systemOptions = o ] :
        o \in { DefaultConfiguration.systemOptions,
                [ telemetry |-> None ],
                [ tokenRenewalOffsetSeconds |-> 0 ],
                [ tokenRenewalOffsetSeconds |-> 301 ],
                [ tokenRenewalOffsetSeconds |-> 301, telemetry |-> None ] } }

\* The caches the silent flow finds: empty, or an access token for the scopes
\* a b that expires at second 1000.
SilentStores ==
    { {},
      { StoreItem(generateCredentialKey(e), "Credential", e) :
          e \in { AccessTokenEntity(
                     CredentialEntity(<<"u">>, <<"e">>, ACCESS_TOKEN, ClientId, <<"x">>,
                                      Undefined, Authority.tenant, <<"a"," ","b">>),
                     1000) } } }

SilentInit ==
    /\ store \in SilentStores
    /\ lastOp = NoOp
    /\ lastSet = None
    /\ lastWritten = {}
    /\ pending = NoPending
    /\ CodecIdle
    /\ pc = [c \in CallIds |-> "idle"]
    /\ request = [c \in CallIds |-> None]
    /\ response = [c \in CallIds |-> None]
    /\ outcome = [c \in CallIds |-> NoOutcome]
    /\ trace = [c \in CallIds |-> << >>]
    /\ posts = [c \in CallIds |-> 0]
    /\ configuration \in Configurations
    /\ config = buildClientConfiguration(configuration)

\* The silent flow at second now: a cached access token for the account, the
\* client, the realm and the scopes that is not expired is returned; without
\* one the expired entries found are evicted and the token is refreshed over
\* the network.
AcquireTokenSilent(c, req, now) ==
    /\ pc[c] = "idle"
    /\ request' = [request EXCEPT ![c] = req]
    /\ LET found == getCredentialsFilteredBy(store,
                        CredentialFilter(<<"u">>, Authority.canonicalAuthorityHost,
                                         ACCESS_TOKEN, ClientId, Undefined,
                                         Authority.tenant, req.scopes)).entities
           valid == { e \in found :
                        ~ isTokenExpired(e.expiresOn, now,
                                         config.systemOptions.tokenRenewalOffsetSeconds) }
       IN  IF valid # {}
           THEN /\ \E e \in valid :
                      outcome' = [outcome EXCEPT ![c] =
                          [ error |-> NoError,
                            result |-> [ accessToken |-> e.secret, idToken |-> Undefined,
                                         account |-> [ homeAccountId |-> e.homeAccountId,
                                                       environment |-> e.environment,
                                                       tenantId |-> e.realm,
                                                       username |-> Undefined ],
                                         scopes |-> ScopeSet(e.target),
                                         expiresOn |-> e.expiresOn ] ]]
                /\ trace' = [trace EXCEPT ![c] = <<Event("cacheHit", now)>>]
                /\ pc' = [pc EXCEPT ![c] = "resolved"]
                /\ UNCHANGED <<posts, store>>
           ELSE /\ trace' = [trace EXCEPT ![c] =
                                <<Event("cacheMiss", now),
                                  Event("sendPostRequest", createTokenRequestBody(req))>>]
                /\ store' = { item \in store :
                                \A e \in found : item.key # generateCredentialKey(e) }
                /\ posts' = [posts EXCEPT ![c] = posts[c] + 1]
                /\ pc' = [pc EXCEPT ![c] = "awaiting"]
                /\ UNCHANGED outcome
    /\ UNCHANGED <<response, configVars>>
    /\ UNCHANGED <<codecVars, lastOp, lastSet, lastWritten, pending>>

\* The application asks for a token at one of five seconds around the window.
SpecSilent ==
    SilentInit /\ [][ \/ \E c \in CallIds : \E req \in Requests :
                            \E now \in { 699, 700, 701, 999, 1000 } :
                                AcquireTokenSilent(c, req, now)
                      \/ \E c \in CallIds : NetworkFail(c) ]_vars

----------------------------------------------------------------------------
(* Several cached access tokens match one silent lookup: SpecTieBreak *)

\* Access tokens of one account, client and realm are written, with targets
\* "a b" and "a b c"; the application asks silently for "a b".
SpecTieBreak ==
    SilentInit /\ [][ \/ \E t \in { <<"a"," ","b">>, <<"a"," ","b"," ","c">> } :
                          \E secret \in { <<"x">>, <<"y">> } :
                             SetCredential(AccessTokenEntity(
                                 CredentialEntity(<<"u">>, Authority.canonicalAuthorityHost,
                                                  ACCESS_TOKEN, ClientId, secret, Undefined,
                                                  Authority.tenant, t),
                                 1000))
                      \/ \E c \in CallIds :
                            AcquireTokenSilent(c, RefreshTokenRequest(<<"a"," ","b">>, <<"z">>,
                                                                      Undefined), 600)
                      \/ \E c \in CallIds : NetworkFail(c) ]_vars

----------------------------------------------------------------------------
(* The application keeps and changes the results returned: SpecResult *)

\* The application overwrites the access token of a result it was returned.
MutateResult(c) ==
    /\ pc[c] = "resolved"
    /\ outcome[c].result.accessToken # <<"!">>
    /\ outcome' = [outcome EXCEPT ![c].result.accessToken = <<"!">>]
    /\ trace' = [trace EXCEPT ![c] = trace[c] \o <<Event("mutateResult", None)>>]
    /\ UNCHANGED <<pc, request, response, posts, configVars>>
    /\ UNCHANGED <<codecVars, cacheVars>>

\* The responses without an error field that carry an access token and
\* client_info.
ResultBodies(req) ==
    { body \in ServerBodies(req) :
        body.error = Undefined /\ body.access_token # Undefined /\ body.client_info # None }

SpecResult ==
    Init /\ [][ \/ \E c \in CallIds : \E req \in Requests : AcquireToken(c, req)
                \/ \E c \in CallIds : \E req \in Requests : \E body \in ResultBodies(req) :
                      req = request[c] /\ NetworkRespond(c, body)
                \/ \E c \in CallIds : MutateResult(c)
                \/ \E item \in store :
                      item.schema = "Credential" /\ RemoveCredential(item.value) ]_vars

----------------------------------------------------------------------------
(* acquireToken after the await, one cache write at a time: SpecPipeline *)

\* Faulty variant: the handler awaits between its cache writes, so another call
\* may run while one is writing.
EventLoopFree_Suspends == TRUE

\* acquireToken has one await, the POST; the code after it runs to its end
\* before any other call runs. No call is in that synchronous part.
EventLoopFree == \A d \in CallIds : pc[d] # "running"

\* The POST resolves: validateTokenResponse and the handler up to its first
\* cache write; an error thrown by either rejects the call.
ResponseArrives(c, body) ==
    /\ pc[c] = "awaiting"
    /\ LET run == acquireToken(store, body)
       IN  IF run.error # NoError
           THEN /\ outcome' = [outcome EXCEPT ![c] = [error |-> run.error, result |-> None]]
                /\ trace' = [trace EXCEPT ![c] =
                                trace[c] \o <<Event("response", None)>> \o run.steps]
                /\ pc' = [pc EXCEPT ![c] = "rejected"]
           ELSE /\ trace' = [trace EXCEPT ![c] =
                                trace[c] \o <<Event("response", None),
                                              Event("validateTokenResponse", None),
                                              Event("handleServerTokenResponse", None)>>]
                /\ pc' = [pc EXCEPT ![c] = "running"]
                /\ UNCHANGED outcome
    /\ response' = [response EXCEPT ![c] = body]
    /\ UNCHANGED <<request, posts, store, configVars>>
    /\ UNCHANGED <<codecVars, lastOp, lastSet, lastWritten, pending>>

\* The next cache write of the handler; after the last one acquireToken
\* returns the result.
WriteEntity(c) ==
    /\ pc[c] = "running"
    /\ LET h == handleServerTokenResponse(store, response[c], Authority)
           done == Cardinality({ i \in DOMAIN trace[c] :
                                   trace[c][i].name \in { "setAccount", "setCredential" } })
           w == h.writes[done + 1]
       IN  /\ store' = applyWrite(store, w)
           /\ trace' = [trace EXCEPT ![c] = trace[c] \o WriteEvents(<<w>>)]
           /\ IF done + 1 = Len(h.writes)
              THEN /\ pc' = [pc EXCEPT ![c] = "resolved"]
                   /\ outcome' = [outcome EXCEPT ![c] = [error |-> NoError, result |-> h.result]]
              ELSE UNCHANGED <<pc, outcome>>
    /\ UNCHANGED <<request, response, posts, configVars>>
    /\ UNCHANGED <<codecVars, lastOp, lastSet, lastWritten, pending>>

SpecPipeline ==
    Init /\ [][ \/ \E c \in CallIds : \E req \in Requests :
                      EventLoopFree /\ AcquireToken(c, req)
                \/ \E c \in CallIds : \E req \in Requests : \E body \in ResultBodies(req) :
                      EventLoopFree /\ req = request[c] /\ ResponseArrives(c, body)
                \/ \E c \in CallIds : EventLoopFree /\ NetworkFail(c)
                \/ \E c \in CallIds : WriteEntity(c) ]_vars

----------------------------------------------------------------------------
(* The storage backend fails during a cache write: SpecStorage *)

\* Faulty variant: it catches what the handler throws and returns normally.
acquireTokenRejection_Swallow(thrown) == NoError

\* acquireToken has no try/catch: what the handler throws after the await
\* rejects the returned promise as it is.
acquireTokenRejection(thrown) == thrown

\* The backend throws on the next cache write of the handler: the write is not
\* done, the handler stops, and the call settles by what acquireToken lets
\* through.
SetItemThrows(c, thrown) ==
    /\ pc[c] = "running"
    /\ LET h == handleServerTokenResponse(store, response[c], Authority)
           err == acquireTokenRejection(thrown)
       IN  /\ outcome' = [outcome EXCEPT ![c] =
                             [error |-> err,
                              result |-> IF err = NoError THEN h.result ELSE None]]
           /\ pc' = [pc EXCEPT ![c] = IF err = NoError THEN "resolved" ELSE "rejected"]
    /\ trace' = [trace EXCEPT ![c] = trace[c] \o <<Event("storageFailure", thrown)>>]
    /\ UNCHANGED <<request, response, posts, store, configVars>>
    /\ UNCHANGED <<codecVars, lastOp, lastSet, lastWritten, pending>>

SpecStorage ==
    Init /\ [][ \/ \E c \in CallIds : \E req \in Requests :
                      EventLoopFree /\ AcquireToken(c, req)
                \/ \E c \in CallIds : \E req \in Requests : \E body \in ResultBodies(req) :
                      EventLoopFree /\ req = request[c] /\ ResponseArrives(c, body)
                \/ \E c \in CallIds : WriteEntity(c)
                \/ \E c \in CallIds : \E code \in { <<"q">>, <<"i">> } :
                      SetItemThrows(c, [type |-> "StorageError", code |-> code,
                                        description |-> Undefined]) ]_vars

----------------------------------------------------------------------------
(* The sample AuthModule: silent first, then interactive. SpecSample *)

\* Faulty variant: it falls back to interaction on any error.
isInteractionRequired_AnyError(e) == TRUE

\* e instanceof InteractionRequiredAuthError
isInteractionRequired(e) == e.type = "InteractionRequiredAuthError"

\* getTokenPopup / getTokenRedirect is called: it awaits acquireTokenSilent.
GetToken(c, kind) ==
    /\ pc[c] = "idle"
    /\ request' = [request EXCEPT ![c] = [kind |-> kind]]
    /\ trace' = [trace EXCEPT ![c] = <<Event("acquireTokenSilent", None)>>]
    /\ pc' = [pc EXCEPT ![c] = "awaiting"]
    /\ UNCHANGED <<response, outcome, posts, store, configVars>>
    /\ UNCHANGED <<codecVars, lastOp, lastSet, lastWritten, pending>>

\* acquireTokenSilent settles: resolved (e = NoError), its access token is
\* returned; rejected with e, the catch block starts the interactive call for
\* an InteractionRequiredAuthError and logs any other error. getTokenPopup
\* returns the popup's promise, getTokenRedirect does not await the redirect.
SilentSettles(c, e, accessToken) ==
    /\ pc[c] = "awaiting"
    /\ IF e = NoError
       THEN /\ trace' = [trace EXCEPT ![c] = trace[c] \o <<Event("silentResolved", accessToken)>>]
            /\ outcome' = [outcome EXCEPT ![c] = [error |-> NoError, result |-> accessToken]]
            /\ pc' = [pc EXCEPT ![c] = "resolved"]
       ELSE IF isInteractionRequired(e)
       THEN IF request[c].kind = "popup"
            THEN /\ trace' = [trace EXCEPT ![c] =
                                 trace[c] \o <<Event("silentRejected", e),
                                               Event("acquireTokenPopup", None)>>]
                 /\ pc' = [pc EXCEPT ![c] = "interactive"]
                 /\ UNCHANGED outcome
            ELSE /\ trace' = [trace EXCEPT ![c] =
                                 trace[c] \o <<Event("silentRejected", e),
                                               Event("acquireTokenRedirect", None)>>]
                 /\ outcome' = [outcome EXCEPT ![c] = [error |-> NoError, result |-> Undefined]]
                 /\ pc' = [pc EXCEPT ![c] = "resolved"]
       ELSE /\ trace' = [trace EXCEPT ![c] = trace[c] \o <<Event("silentRejected", e)>>]
            /\ outcome' = [outcome EXCEPT ![c] = [error |-> NoError, result |-> Undefined]]
            /\ pc' = [pc EXCEPT ![c] = "resolved"]
    /\ UNCHANGED <<request, response, posts, store, configVars>>
    /\ UNCHANGED <<codecVars, lastOp, lastSet, lastWritten, pending>>

\* acquireTokenPopup settles: its access token is returned, or null after an
\* error.
PopupSettles(c, e, accessToken) ==
    /\ pc[c] = "interactive"
    /\ trace' = [trace EXCEPT ![c] =
                    trace[c] \o <<IF e = NoError THEN Event("popupResolved", accessToken)
                                  ELSE Event("popupRejected", e)>>]
    /\ outcome' = [outcome EXCEPT ![c] =
                      [error |-> NoError,
                       result |-> IF e = NoError THEN accessToken ELSE <<"null">>]]
    /\ pc' = [pc EXCEPT ![c] = "resolved"]
    /\ UNCHANGED <<request, response, posts, store, configVars>>
    /\ UNCHANGED <<codecVars, lastOp, lastSet, lastWritten, pending>>

SpecSample ==
    Init /\ [][ \/ \E c \in CallIds : \E kind \in { "popup", "redirect" } : GetToken(c, kind)
                \/ \E c \in CallIds : \E accessToken \in { <<"x">>, <<"y">> } :
                      \E e \in { NoError, ClientAuthError(<<"c">>),
                                 ServerError(<<"s">>, Undefined),
                                 [type |-> "InteractionRequiredAuthError", code |-> <<"r">>,
                                  description |-> Undefined] } :
                         \/ SilentSettles(c, e, accessToken)
                         \/ PopupSettles(c, e, accessToken) ]_vars

----------------------------------------------------------------------------
(* Sets, removals and response handling on one store: SpecKeys *)

SpecKeys ==
    Init /\ [][ \/ \E c \in CallIds :
                      AcquireToken(c, RefreshTokenRequest(<<"a"," ","b">>, <<"z">>, Undefined))
                \/ \E c \in CallIds :
                      /\ pc[c] = "awaiting"
                      /\ \E body \in { b \in ResultBodies(request[c]) : b.id_token = GoodIdToken } :
                             NetworkRespond(c, body)
                \/ \E e \in { k \in KnownCredentials : k.clientId = ClientId } : SetCredential(e)
                \/ SetAccount(ExampleAccount)
                \/ \E item \in store :
                      item.schema = "Credential" /\ RemoveCredential(item.value)
                \/ \E item \in store :
                      item.schema = "Account" /\ RemoveAccount(item.value) ]_vars

----------------------------------------------------------------------------
(* The life of a stored entity: SpecLifecycle *)

\* A cache that is empty or holds an access token expiring at second 1000.
LifecycleInit ==
    /\ store \in SilentStores
    /\ lastOp = NoOp /\ lastSet = None /\ lastWritten = {} /\ pending = NoPending
    /\ CodecIdle
    /\ ClientIdle

\* An application that asks silently, gets its tokens refreshed, looks
\* accounts and credentials up and signs out.
SpecLifecycle ==
    /\ LifecycleInit
    /\ [][ \/ \E c \in CallIds :
                  AcquireTokenSilent(c, RefreshTokenRequest(<<"a"," ","b">>, <<"z">>, Undefined), 700)
           \/ \E c \in CallIds :
                  /\ pc[c] = "awaiting"
                  /\ \E body \in { b \in ServerBodies(request[c]) :
                                      b.error = Undefined /\ b.client_info # None } :
                         NetworkRespond(c, body)
           \/ \E c \in CallIds : NetworkFail(c)
           \/ \E item \in store : item.schema = "Credential" /\ RemoveCredential(item.value)
           \/ \E item \in store : item.schema = "Account" /\ RemoveAccount(item.value)
           \/ GetCredentialsFilteredBy(CredentialFilter(Undefined, Undefined, ACCESS_TOKEN,
                                                        ClientId, Undefined, Undefined, Undefined))
           \/ GetAccountsFilteredBy(AccountFilter(Undefined, Authority.canonicalAuthorityHost,
                                                  Undefined)) ]_vars

----------------------------------------------------------------------------
(* A client built with or without its collaborators: SpecConfig *)

\* The client after its constructor ran on a configuration that supplies or
\* leaves out the network and the crypto interface.
ConfigInit ==
    /\ CacheIdle
    /\ CodecIdle
    /\ pc = [c \in CallIds |-> "idle"]
    /\ request = [c \in CallIds |-> None]
    /\ response = [c \in CallIds |-> None]
    /\ outcome = [c \in CallIds |-> NoOutcome]
    /\ trace = [c \in CallIds |-> << >>]
    /\ posts = [c \in CallIds |-> 0]
    /\ configuration \in
          { ClientConfiguration([ k \in {} |-> None ], n, y) :
              n \in { None, Implemented(DEFAULT_NETWORK_IMPLEMENTATION) },
              y \in { None, Implemented(DEFAULT_CRYPTO_IMPLEMENTATION) } }
    /\ config = buildClientConfiguration(configuration)

\* The application's calls, with a correlation id of its own or without one.
SpecConfig ==
    ConfigInit /\ [][ \/ \E c \in CallIds :
                            \E req \in Requests \cup { RefreshTokenRequest(<<"a">>, <<"z">>, <<"k">>) } :
                                AcquireToken(c, req)
                      \/ \E c \in CallIds :
                            /\ pc[c] = "awaiting"
                            /\ \E body \in ResultBodies(request[c]) : NetworkRespond(c, body)
                      \/ \E c \in CallIds : NetworkFail(c) ]_vars

----------------------------------------------------------------------------
(* Claims about the codec, checked under SpecCodec *)

IsLowerCase(s) == \A i \in DOMAIN s : \A j \in DOMAIN UpperChars : s[i] # UpperChars[j]

LowerOptional(s) == IF s = Undefined THEN Undefined ELSE toLowerCase(s)

\* Two entities whose fields differ in letter case only (the type is an enum).
SameUpToCase(a, b) ==
    /\ a.credentialType = b.credentialType
    /\ toLowerCase(a.homeAccountId) = toLowerCase(b.homeAccountId)
    /\ toLowerCase(a.environment) = toLowerCase(b.environment)
    /\ toLowerCase(a.clientId) = toLowerCase(b.clientId)
    /\ LowerOptional(a.familyId) = LowerOptional(b.familyId)
    /\ LowerOptional(a.realm) = LowerOptional(b.realm)
    /\ LowerOptional(a.target) = LowerOptional(b.target)

\* C1: the generated credential key is entirely lowercase, and every entity
\* that differs from the given one in letter case only gets the same key.
C1_KeyCaseNormalized ==
    pcCodec = "done" =>
        /\ IsLowerCase(credentialKey)
        /\ \A b \in CodecEntities :
              SameUpToCase(b, entity) => generateCredentialKey(b) = credentialKey

\* An entity with upper-case letters whose key equals that of a different
\* entity, the same up to letter case.
C1_Witness ==
    /\ pcCodec = "done"
    /\ entity.environment = <<"E">>
    /\ entity.homeAccountId = <<"U">>
    /\ entity.target = <<"S"," ","t">>
    /\ \E b \in CodecEntities :
          b # entity /\ SameUpToCase(b, entity) /\ generateCredentialKey(b) = credentialKey

\* The client component the claim states: the family id exactly for a refresh
\* token with a non-empty family id, the client id otherwise.
C2_ExpectedClient(e) ==
    IF e.credentialType = REFRESH_TOKEN /\ e.familyId # Undefined /\ e.familyId # EmptyString
    THEN e.familyId
    ELSE e.clientId

\* C2: the credential-id component is <type>-<client or family>-<realm>,
\* lowercased, the middle being the family id exactly for a refresh token with
\* a non-empty family id; RefreshToken/A/F gives f, RefreshToken/A/undefined a.
C2_FamilyFallback ==
    pcCodec = "done" =>
        /\ keyParts[2] =
              toLowerCase(entity.credentialType) \o <<"-">>
              \o toLowerCase(C2_ExpectedClient(entity)) \o <<"-">>
              \o (IF entity.realm = Undefined THEN EmptyString ELSE toLowerCase(entity.realm))
        /\ (entity.credentialType = REFRESH_TOKEN /\ entity.clientId = <<"A">>
              /\ entity.realm = Undefined) =>
              /\ entity.familyId = <<"F">> =>
                    keyParts[2] = <<"r","e","f","r","e","s","h","t","o","k","e","n","-","f","-">>
              /\ entity.familyId = Undefined =>
                    keyParts[2] = <<"r","e","f","r","e","s","h","t","o","k","e","n","-","a","-">>
        /\ (entity.credentialType = ACCESS_TOKEN /\ entity.clientId = <<"A">>
              /\ entity.realm = Undefined /\ entity.familyId = <<"F">>) =>
              keyParts[2] = <<"a","c","c","e","s","s","t","o","k","e","n","-","a","-">>

C2_Witness ==
    /\ pcCodec = "done"
    /\ entity.credentialType = REFRESH_TOKEN
    /\ entity.clientId = <<"A">>
    /\ entity.familyId = <<"F">>
    /\ entity.realm = Undefined
    /\ keyParts[2] = <<"r","e","f","r","e","s","h","t","o","k","e","n","-","f","-">>

\* The logical credential of the claim: the six fields, lowercased, an absent
\* realm or target taken as empty.
C3_LogicalCredential(e) ==
    << toLowerCase(e.homeAccountId), toLowerCase(e.environment),
       toLowerCase(e.credentialType), toLowerCase(C2_ExpectedClient(e)),
       toLowerCase(OrElse(e.realm, EmptyString)),
       toLowerCase(OrElse(e.target, EmptyString)) >>

\* C3: two entities get the same credential key only if they are the same
\* logical credential, field by field after lowercasing.
C3_KeyUnique ==
    pcCodec = "done" =>
        \A b \in CodecEntities :
            generateCredentialKey(b) = credentialKey =>
                C3_LogicalCredential(b) = C3_LogicalCredential(entity)

----------------------------------------------------------------------------
(* Claims about the cache manager, checked under SpecCache *)

CredentialItems(st) == { item \in st : item.schema = "Credential" }

\* C4: the store holds at most one credential per cache key, it is the one
\* written last, and right after setCredential(e) the only credential with
\* e's cache key is e itself, whole (secret and every other field).
C4_Overwrite ==
    /\ \A p \in CredentialItems(store) : \A q \in CredentialItems(store) :
          CacheKeyOf(p.value) = CacheKeyOf(q.value) => p = q
    /\ \A p \in CredentialItems(store) :
          [key |-> CacheKeyOf(p.value), value |-> p.value] \in lastWritten
    /\ lastOp.op = "setCredential" =>
          { p.value : p \in { i \in CredentialItems(store) :
                                CacheKeyOf(i.value) = CacheKeyOf(lastOp.arg) } }
            = { lastOp.arg }

\* A write that replaced a credential with the same key and another secret.
C4_Witness ==
    /\ lastOp.op = "setCredential"
    /\ \E old \in lastOp.before :
          /\ old.schema = "Credential"
          /\ old.value.secret # lastOp.arg.secret
          /\ CacheKeyOf(old.value) = CacheKeyOf(lastOp.arg)
    /\ \E p \in store : p.value = lastOp.arg

\* A lookup by the exact identifying fields of the entity just written.
C5_LookupOfLastSet ==
    /\ lastOp.op = "getCredentialsFilteredBy"
    /\ lastSet # None
    /\ lastOp.arg = FilterOf(lastSet)

\* The scope sets of the targets in use, written out.
C6_Scopes(target) ==
    CASE target = Undefined -> {}
      [] target = <<"a"," ","b">> -> { <<"a">>, <<"b">> }
      [] target = <<"A"," ","B">> -> { <<"a">>, <<"b">> }
      [] target = <<"b"," ","a">> -> { <<"a">>, <<"b">> }
      [] target = <<"a"," ","b"," ","c">> -> { <<"a">>, <<"b">>, <<"c">> }
      [] target = <<"c">> -> { <<"c">> }

\* C5 as stated: the lookup by e's exact fields returns exactly the entity e.
C5_RoundTripExactlyOne ==
    C5_LookupOfLastSet =>
        /\ ~ lastOp.result.threw
        /\ lastOp.result.entities = { lastSet }

\* C5 amended: the lookup by e's exact fields returns e, unchanged, among its
\* results; every result agrees with e on each field e sets and has a target
\* scope set that includes e's.
C5_RoundTripContains ==
    C5_LookupOfLastSet =>
        /\ ~ lastOp.result.threw
        /\ lastSet \in lastOp.result.entities
        /\ \A x \in lastOp.result.entities :
              /\ x.homeAccountId = lastSet.homeAccountId
              /\ x.environment = lastSet.environment
              /\ x.credentialType = lastSet.credentialType
              /\ x.clientId = lastSet.clientId
              /\ lastSet.familyId # Undefined => x.familyId = lastSet.familyId
              /\ lastSet.realm # Undefined => x.realm = lastSet.realm
              /\ C6_Scopes(lastSet.target) \subseteq C6_Scopes(x.target)

\* The written entity is returned together with another stored entity.
C5_Witness ==
    /\ C5_LookupOfLastSet
    /\ lastSet \in lastOp.result.entities
    /\ Cardinality(lastOp.result.entities) = 2

\* C6: with a target filter, a stored AccessToken is returned exactly when
\* the other filter fields match and its scope set, compared case-
\* insensitively, is a superset of the requested scopes.
C6_ScopeSuperset ==
    (lastOp.op = "getCredentialsFilteredBy" /\ lastOp.arg.target # Undefined) =>
        \A p \in CredentialItems(store) :
            p.value.credentialType = ACCESS_TOKEN =>
                ( p.value \in lastOp.result.entities
                  <=> /\ matchField(p.value.homeAccountId, lastOp.arg.homeAccountId)
                      /\ matchField(p.value.environment, lastOp.arg.environment)
                      /\ matchField(p.value.credentialType, lastOp.arg.credentialType)
                      /\ matchField(p.value.clientId, lastOp.arg.clientId)
                      /\ matchField(p.value.familyId, lastOp.arg.familyId)
                      /\ matchField(p.value.realm, lastOp.arg.realm)
                      /\ C6_Scopes(lastOp.arg.target) \subseteq C6_Scopes(p.value.target) )

\* A request for {a,b,c}: the token with target 'a b c' is returned, the
\* stored token with target 'a b' is not.
C6_Witness ==
    /\ lastOp.op = "getCredentialsFilteredBy"
    /\ lastOp.arg.target = <<"a"," ","b"," ","c">>
    /\ \E p \in CredentialItems(store) :
          /\ p.value.target = <<"a"," ","b"," ","c">>
          /\ p.value \in lastOp.result.entities
    /\ \E p \in CredentialItems(store) :
          /\ p.value.credentialType = ACCESS_TOKEN
          /\ p.value.target = <<"a"," ","b">>
          /\ p.value \notin lastOp.result.entities

\* C7: a filtered lookup never throws, leaves the store as it was, and
\* returns exactly the matching entities among the well-formed items; a
\* malformed item is skipped.
C7_CorruptionIsolation ==
    /\ lastOp.op = "getCredentialsFilteredBy" =>
          /\ ~ lastOp.result.threw
          /\ store = lastOp.before
          /\ \A i \in store :
                (i.schema = "Credential" /\ credentialMatches(i.value, lastOp.arg))
                    <=> (i.schema # "Malformed" /\ i.value \in lastOp.result.entities)
          /\ \A x \in lastOp.result.entities : \E i \in store : i.value = x
    /\ lastOp.op = "getAccountsFilteredBy" =>
          /\ ~ lastOp.result.threw
          /\ store = lastOp.before
          /\ \A i \in store :
                (i.schema = "Account" /\ accountMatches(i.value, lastOp.arg))
                    <=> (i.schema # "Malformed" /\ i.value \in lastOp.result.entities)
          /\ \A x \in lastOp.result.entities : \E i \in store : i.value = x

\* A lookup over a store of one malformed and one well-formed item, which
\* returned the well-formed one.
C7_Witness ==
    /\ lastOp.op = "getCredentialsFilteredBy"
    /\ Cardinality(store) >= 2
    /\ Cardinality({ i \in store : i.schema = "Malformed" }) = 1
    /\ lastOp.result.entities # {}
    /\ ~ lastOp.result.threw

----------------------------------------------------------------------------
(* Claims about the client layer, checked under Spec *)

IsCacheWrite(event) == event.name = "setAccount" \/ event.name = "setCredential"

\* C8: a response-handling run that fails with ClientAuthError (both tokens
\* missing, undecodable ID token, unresolvable home account id) leaves the
\* cache exactly as it was and has written no entity.
C8_NoPartialWrite ==
    /\ [][ \A c \in CallIds :
              (pc[c] = "awaiting" /\ pc'[c] = "rejected"
                 /\ outcome'[c].error.type = "ClientAuthError") => store' = store ]_vars
    /\ [] ( \A c \in CallIds :
              outcome[c].error.type = "ClientAuthError" =>
                  \A i \in DOMAIN trace[c] : ~ IsCacheWrite(trace[c][i]) )

\* A call rejected for an undecodable ID token beside a call that resolved
\* and filled the cache.
C8_Witness ==
    \E c \in CallIds : \E d \in CallIds :
        /\ pc[c] = "rejected"
        /\ outcome[c].error = ClientAuthError(<<"InvalidIdToken">>)
        /\ response[c].refresh_token # Undefined
        /\ pc[d] = "resolved"
        /\ \E item \in store : item.schema = "Credential"

\* C9: a response with an error field rejects with ServerError carrying its
\* error and error_description; one without error and without access_token
\* and id_token rejects with InvalidResponse; one without error and with a
\* token passes validation and reaches the handler.
C9_ResponseValidation ==
    \A c \in CallIds :
        response[c] # None =>
            /\ response[c].error # Undefined =>
                  /\ pc[c] = "rejected"
                  /\ outcome[c].error.type = "ServerError"
                  /\ outcome[c].error.code = response[c].error
                  /\ outcome[c].error.description = response[c].error_description
            /\ (response[c].error = Undefined /\ response[c].access_token = Undefined
                  /\ response[c].id_token = None) =>
                  /\ pc[c] = "rejected"
                  /\ outcome[c].error.code = <<"InvalidResponse">>
            /\ (response[c].error = Undefined
                  /\ (response[c].access_token # Undefined \/ response[c].id_token # None)) =>
                  /\ outcome[c].error.type # "ServerError"
                  /\ outcome[c].error.code # <<"InvalidResponse">>
                  /\ \E i \in DOMAIN trace[c] : trace[c][i].name = "handleServerTokenResponse"

\* A response with an error field and with tokens, rejected with ServerError.
C9_Witness ==
    \E c \in CallIds :
        /\ pc[c] = "rejected"
        /\ response[c] # None
        /\ response[c].access_token = <<"x">>
        /\ outcome[c].error = ServerError(<<"g">>, <<"d">>)

\* C10: in each call the POST completes before validateTokenResponse, which
\* precedes handleServerTokenResponse, which precedes every cache write;
\* nothing is handled or written unless validation returned, and when it
\* throws the handler is never invoked and the call rejects with that error.
C10_ValidateBeforeWrite ==
    \A c \in CallIds :
        LET t == trace[c]
        IN  /\ \A i \in DOMAIN t :
                  t[i].name = "validateTokenResponse" =>
                      \E j \in 1..(i - 1) :
                          /\ t[j].name = "response"
                          /\ \E k \in 1..(j - 1) : t[k].name = "sendPostRequest"
            /\ \A i \in DOMAIN t :
                  (t[i].name = "handleServerTokenResponse" \/ IsCacheWrite(t[i])) =>
                      /\ \E j \in 1..(i - 1) : t[j].name = "validateTokenResponse"
                      /\ response[c].error = Undefined
                      /\ (response[c].access_token # Undefined \/ response[c].id_token # None)
            /\ \A i \in DOMAIN t :
                  IsCacheWrite(t[i]) =>
                      \E j \in 1..(i - 1) : t[j].name = "handleServerTokenResponse"
            /\ (response[c] # None
                  /\ (response[c].error # Undefined
                        \/ (response[c].access_token = Undefined /\ response[c].id_token = None))) =>
                  /\ pc[c] = "rejected"
                  /\ outcome[c].error.type \in { "ServerError", "ClientAuthError" }
                  /\ \A i \in DOMAIN t : t[i].name # "handleServerTokenResponse"

\* Validation threw on a response that carries tokens: the handler was not
\* invoked, nothing was written, the call is rejected.
C10_Witness ==
    \E c \in CallIds :
        /\ pc[c] = "rejected"
        /\ response[c] # None
        /\ response[c].error # Undefined
        /\ response[c].id_token = GoodIdToken
        /\ Len(trace[c]) = 3
        /\ trace[c][3].name = "validateTokenResponse"
        /\ store \in InitialStores

\* C11: when the awaited network call of an acquireToken call fails, neither
\* validateTokenResponse nor handleServerTokenResponse is invoked and nothing is
\* written, the call rejects with the network error, and no step of the call
\* (sending the request, the failure) changes the cache.
C11_NetworkFailureFrame ==
    /\ [][ \A c \in CallIds :
              /\ (pc[c] = "idle" /\ pc'[c] = "awaiting") => store' = store
              /\ (pc[c] = "awaiting"
                    /\ \E i \in DOMAIN trace'[c] : trace'[c][i].name = "networkError") =>
                    store' = store ]_vars
    /\ [] ( \A c \in CallIds :
              (\E i \in DOMAIN trace[c] : trace[c][i].name = "networkError") =>
                  /\ pc[c] = "rejected"
                  /\ outcome[c].error.type = "NetworkError"
                  /\ outcome[c].result = None
                  /\ response[c] = None
                  /\ \A i \in DOMAIN trace[c] :
                        /\ trace[c][i].name # "validateTokenResponse"
                        /\ trace[c][i].name # "handleServerTokenResponse"
                        /\ ~ IsCacheWrite(trace[c][i]) )

\* A call whose POST failed while the cache held the credentials another call
\* had written: it is rejected after two steps, the send and the failure.
C11_Witness ==
    \E c \in CallIds : \E d \in CallIds :
        /\ pc[c] = "rejected"
        /\ outcome[c].error.type = "NetworkError"
        /\ Len(trace[c]) = 2
        /\ trace[c][2].name = "networkError"
        /\ pc[d] = "resolved"
        /\ \E item \in store : item.schema = "Credential"

----------------------------------------------------------------------------
(* Claims about accounts in the cache manager, checked under SpecAccounts *)

AccountItems(st) == { item \in st : item.schema = "Account" }

SameAccountPair(a, b) ==
    a.homeAccountId = b.homeAccountId /\ a.environment = b.environment

\* C12: every stored account is under the key lowercase(homeAccountId)-
\* lowercase(environment), whatever its tenantId and username; the store holds
\* at most one account per (homeAccountId, environment) pair; and right after
\* an account is written, it is the only stored account of its pair.
C12_AccountKeyStable ==
    /\ \A p \in AccountItems(store) :
          p.key = toLowerCase(p.value.homeAccountId) \o <<"-">>
                    \o toLowerCase(p.value.environment)
    /\ \A p \in AccountItems(store) : \A q \in AccountItems(store) :
          SameAccountPair(p.value, q.value) => p = q
    /\ lastOp.op = "setAccount" =>
          { p.value : p \in { i \in AccountItems(store) :
                                SameAccountPair(i.value, lastOp.arg) } } = { lastOp.arg }

\* The home account signs in again in another tenant and under another name:
\* the write replaced the stored account, beside an account of another pair.
C12_Witness ==
    /\ lastOp.op = "setAccount"
    /\ \E old \in lastOp.before :
          /\ old.schema = "Account"
          /\ SameAccountPair(old.value, lastOp.arg)
          /\ old.value.tenantId # lastOp.arg.tenantId
          /\ old.value.username # lastOp.arg.username
    /\ Cardinality(AccountItems(store)) = 2
    /\ \E p \in AccountItems(store) : p.value.homeAccountId = <<"U">>

\* C13: getAccountsFilteredBy returns exactly the stored accounts that equal
\* the filter in each of homeAccountId, environment and realm the filter
\* provides; with the account uid.utid at login.microsoftonline.com stored
\* alone, under the key uid.utid-login.microsoftonline.com, the lookup by
\* homeAccountId uid.utid returns exactly that account.
C13_AccountLookup ==
    lastOp.op = "getAccountsFilteredBy" =>
        /\ ~ lastOp.result.threw
        /\ lastOp.result.entities =
              { p.value : p \in
                  { i \in AccountItems(store) :
                      /\ lastOp.arg.homeAccountId # Undefined =>
                            i.value.homeAccountId = lastOp.arg.homeAccountId
                      /\ lastOp.arg.environment # Undefined =>
                            i.value.environment = lastOp.arg.environment
                      /\ lastOp.arg.realm # Undefined =>
                            i.value.tenantId = lastOp.arg.realm } }
        /\ (AccountItems(store) = { i \in store : i.value = ExampleAccount }
              /\ AccountItems(store) # {}
              /\ lastOp.arg = AccountFilter(<<"u","i","d",".","u","t","i","d">>, Undefined, Undefined)) =>
              /\ lastOp.result.entities = { ExampleAccount }
              /\ \A i \in AccountItems(store) :
                    i.key = <<"u","i","d",".","u","t","i","d","-","l","o","g","i","n",".","m","i","c","r","o","s","o","f","t","o","n","l","i","n","e",".","c","o","m">>

\* The example account beside an account of another home account; the lookup
\* by homeAccountId uid.utid returned the example account alone.
C13_Witness ==
    /\ lastOp.op = "getAccountsFilteredBy"
    /\ lastOp.arg = AccountFilter(<<"u","i","d",".","u","t","i","d">>, Undefined, Undefined)
    /\ Cardinality(AccountItems(store)) = 2
    /\ lastOp.result.entities = { ExampleAccount }

\* C14: removeCredential and removeAccount raise no error; on a key that is
\* not in the store they leave the store as it was; they delete the entry
\* under the key and no other; and removing the same key twice in a row leaves
\* the store the first removal left.
C14_IdempotentDelete ==
    [][ lastOp'.op \in { "removeCredential", "removeAccount" } =>
          /\ ~ lastOp'.result.threw
          /\ lastOp'.arg \notin StoreKeys(store) => store' = store
          /\ \A i \in store : i \in store' <=> i.key # lastOp'.arg
          /\ store' \subseteq store
          /\ (lastOp.op = lastOp'.op /\ lastOp.arg = lastOp'.arg) => store' = store ]_vars

\* removeAccount found nothing under the key and left the two stored items,
\* a credential of that account among them.
C14_Witness ==
    /\ lastOp.op = "removeAccount"
    /\ lastOp.before = {}
    /\ ~ lastOp.result.threw
    /\ Cardinality(store) = 2
    /\ \E i \in store : i.schema = "Credential"

----------------------------------------------------------------------------
(* Claims about the classification of keys, checked under SpecClassify *)

\* The key holds the name at some position, character by character.
C15_Holds(key, name) ==
    \E i \in 0..(Len(key) - Len(name)) : \A j \in 1..Len(name) : key[i + j] = name[j]

\* C15: getCredentialType(key) is AccessToken when the key holds AccessToken,
\* otherwise IdToken when it holds IdToken, otherwise RefreshToken when it
\* holds RefreshToken, otherwise not_defined; no type name holds another one,
\* so a key that is a type name is classified as that type.
C15_Classification ==
    /\ pcCodec = "classified" =>
          /\ classified =
                (IF C15_Holds(credentialKey, <<"A","c","c","e","s","s","T","o","k","e","n">>)
                 THEN <<"A","c","c","e","s","s","T","o","k","e","n">>
                 ELSE IF C15_Holds(credentialKey, <<"I","d","T","o","k","e","n">>)
                 THEN <<"I","d","T","o","k","e","n">>
                 ELSE IF C15_Holds(credentialKey, <<"R","e","f","r","e","s","h","T","o","k","e","n">>)
                 THEN <<"R","e","f","r","e","s","h","T","o","k","e","n">>
                 ELSE <<"n","o","t","_","d","e","f","i","n","e","d">>)
          /\ credentialKey \in CredentialType => classified = credentialKey
    /\ \A t \in CredentialType : \A u \in CredentialType :
          t # u => ~ C15_Holds(t, u)

\* A key that holds IdToken, then RefreshToken, then AccessToken: the type
\* returned is AccessToken, the first in the order of the tests.
C15_Witness ==
    /\ pcCodec = "classified"
    /\ credentialKey = ID_TOKEN \o <<"-">> \o REFRESH_TOKEN \o ACCESS_TOKEN
    /\ classified = ACCESS_TOKEN

----------------------------------------------------------------------------
(* Refresh-token families, checked under SpecAccounts *)

\* The stored refresh tokens of the family of refresh token e.
C16_FamilyTokens(st, e) ==
    { p.value : p \in { i \in CredentialItems(st) :
        /\ i.value.credentialType = REFRESH_TOKEN
        /\ i.value.homeAccountId = e.homeAccountId
        /\ i.value.environment = e.environment
        /\ i.value.familyId = e.familyId } }

\* C16: for one homeAccountId and environment, the store holds at most one
\* refresh token per (non-empty) familyId, whatever the client ids; right after
\* a family refresh token is written it is that single one, and the key of
\* either client of the family, and the lookup by the family, lead to it.
C16_FamilySharing ==
    /\ \A p \in CredentialItems(store) :
          (p.value.credentialType = REFRESH_TOKEN /\ ~ Falsy(p.value.familyId)) =>
              C16_FamilyTokens(store, p.value) = { p.value }
    /\ (lastOp.op = "setCredential" /\ lastOp.arg.credentialType = REFRESH_TOKEN
          /\ ~ Falsy(lastOp.arg.familyId)) =>
          /\ C16_FamilyTokens(store, lastOp.arg) = { lastOp.arg }
          /\ \A client \in { <<"c">>, <<"d">> } :
                getCredential(store,
                    generateCredentialCacheKey(lastOp.arg.homeAccountId,
                        lastOp.arg.environment, REFRESH_TOKEN, client,
                        Undefined, Undefined, lastOp.arg.familyId)) = { lastOp.arg }
          /\ getCredentialsFilteredBy(store,
                CredentialFilter(lastOp.arg.homeAccountId, lastOp.arg.environment,
                                 REFRESH_TOKEN, Undefined, lastOp.arg.familyId,
                                 Undefined, Undefined)).entities = { lastOp.arg }

\* The refresh token of client d replaced the one client c of the same family
\* had written.
C16_Witness ==
    /\ lastOp.op = "setCredential"
    /\ lastOp.arg.credentialType = REFRESH_TOKEN
    /\ lastOp.arg.clientId = <<"d">>
    /\ lastOp.arg.familyId = <<"f">>
    /\ \E old \in lastOp.before :
          /\ old.schema = "Credential"
          /\ old.value.clientId = <<"c">>
          /\ old.value.familyId = <<"f">>
    /\ C16_FamilyTokens(store, lastOp.arg) = { lastOp.arg }

----------------------------------------------------------------------------
(* The format of the credential key, checked under SpecCodec *)

\* C17: the credential key is exactly the six fields homeAccountId,
\* environment, credentialType, clientOrFamilyId, realm, target, lowercased, in
\* this order and joined by '-'; it is the join of the three components
\* (account prefix, credential id, target); an absent realm or target is an
\* empty field, its separator stays.
C17_KeyFormat ==
    pcCodec = "done" =>
        /\ credentialKey =
              toLowerCase(entity.homeAccountId) \o <<"-">>
              \o toLowerCase(entity.environment) \o <<"-">>
              \o toLowerCase(entity.credentialType) \o <<"-">>
              \o toLowerCase(C2_ExpectedClient(entity)) \o <<"-">>
              \o (IF entity.realm = Undefined THEN << >> ELSE toLowerCase(entity.realm))
              \o <<"-">>
              \o (IF entity.target = Undefined THEN << >> ELSE toLowerCase(entity.target))
        /\ Len(keyParts) = 3
        /\ credentialKey = keyParts[1] \o <<"-">> \o keyParts[2] \o <<"-">> \o keyParts[3]
        /\ keyParts[1] = toLowerCase(entity.homeAccountId) \o <<"-">>
                            \o toLowerCase(entity.environment)
        /\ keyParts[3] = (IF entity.target = Undefined THEN << >>
                          ELSE toLowerCase(entity.target))
        /\ (entity.realm = Undefined /\ entity.target = Undefined) =>
              /\ credentialKey[Len(credentialKey)] = "-"
              /\ credentialKey[Len(credentialKey) - 1] = "-"

\* An access token without realm and target: the key ends with the two
\* separators of the empty fields.
C17_Witness ==
    /\ pcCodec = "done"
    /\ entity.credentialType = ACCESS_TOKEN
    /\ entity.realm = Undefined
    /\ entity.target = Undefined
    /\ credentialKey = <<"u","-","e","-","a","c","c","e","s","s","t","o","k","e","n","-","a","-","-">>

----------------------------------------------------------------------------
(* Claims about the returned results, checked under SpecResult *)

\* C18: the result a run returns carries the access token just written; from
\* then on every step that is not the application changing that result (a
\* write or removal of the entities, another call) leaves it as it is, and the
\* application changing a result leaves the cache as it is.
C18_ResultIndependent ==
    [][ \A c \in CallIds :
          /\ (pc[c] = "awaiting" /\ pc'[c] = "resolved"
                /\ outcome'[c].result.accessToken # Undefined) =>
                \E item \in CredentialItems(store') :
                    /\ item.value.credentialType = ACCESS_TOKEN
                    /\ item.value.secret = outcome'[c].result.accessToken
          /\ (pc[c] = "resolved" /\ trace'[c] = trace[c]) => outcome'[c] = outcome[c]
          /\ (pc[c] = "resolved" /\ trace'[c] # trace[c]) =>
                /\ store' = store
                /\ \A d \in CallIds \ {c} : outcome'[d] = outcome[d] ]_vars

\* A result still carries the access token x after another call has
\* overwritten that token in the cache with y.
C18_Witness ==
    \E c \in CallIds : \E d \in CallIds :
        /\ pc[c] = "resolved" /\ pc[d] = "resolved"
        /\ outcome[c].result.accessToken = <<"x">>
        /\ outcome[d].result.accessToken = <<"y">>
        /\ \E item \in CredentialItems(store) :
              item.value.credentialType = ACCESS_TOKEN /\ item.value.secret = <<"y">>
        /\ \A item \in CredentialItems(store) :
              item.value.credentialType = ACCESS_TOKEN => item.value.secret # <<"x">>

----------------------------------------------------------------------------
(* Claims about the silent flow, checked under SpecSilent *)

\* The renewal offset of the claim: the application's tokenRenewalOffsetSeconds,
\* 300 seconds when it sets none.
C19_Offset ==
    IF "tokenRenewalOffsetSeconds" \in DOMAIN configuration.systemOptions
    THEN configuration.systemOptions.tokenRenewalOffsetSeconds
    ELSE 300

\* C19: the offset in use is the application's tokenRenewalOffsetSeconds, 300
\* when it sets none; a silent call at second now is a hit, with no POST,
\* exactly when the cache holds the access token and its expiry minus the
\* offset is after now; otherwise it is a miss and one POST is sent.
C19_RenewalOffset ==
    /\ [] ( config.systemOptions.tokenRenewalOffsetSeconds = C19_Offset )
    /\ [][ \A c \in CallIds :
              (pc[c] = "idle" /\ pc'[c] # "idle") =>
                  LET now == trace'[c][1].arg
                      hit == \E item \in store : item.value.expiresOn - C19_Offset > now
                  IN  /\ hit => /\ pc'[c] = "resolved"
                                /\ trace'[c][1].name = "cacheHit"
                                /\ posts'[c] = 0
                                /\ outcome'[c].result.accessToken = <<"x">>
                  /\ ~ hit => /\ pc'[c] = "awaiting"
                              /\ trace'[c][1].name = "cacheMiss"
                              /\ trace'[c][2].name = "sendPostRequest"
                              /\ posts'[c] = 1 ]_vars

\* No offset configured, the token expires at second 1000: the call at second
\* 699 is a hit, the call at second 700 a miss that sent a POST.
C19_Witness ==
    /\ "tokenRenewalOffsetSeconds" \notin DOMAIN configuration.systemOptions
    /\ \E c \in CallIds : \E d \in CallIds :
          /\ trace[c] = <<Event("cacheHit", 699)>>
          /\ pc[c] = "resolved" /\ posts[c] = 0
          /\ trace[d] # << >>
          /\ trace[d][1] = Event("cacheMiss", 700)
          /\ pc[d] = "awaiting" /\ posts[d] = 1

----------------------------------------------------------------------------
(* What changes the persisted cache during acquireToken, checked under Spec *)

\* The store after the cache writes among the given steps, in their order.
RECURSIVE C20_Replay(_, _)
C20_Replay(st, steps) ==
    IF steps = << >> THEN st
    ELSE LET step == Head(steps)
             e == step.arg
             key == IF step.name = "setAccount"
                    THEN generateAccountIdForCacheKey(e.homeAccountId, e.environment)
                    ELSE generateCredentialCacheKey(e.homeAccountId, e.environment,
                             e.credentialType, e.clientId, e.realm, e.target, e.familyId)
             schema == IF step.name = "setAccount" THEN "Account" ELSE "Credential"
         IN  IF IsCacheWrite(step)
             THEN C20_Replay({ i \in st : i.key # key } \cup { StoreItem(key, schema, e) },
                             Tail(steps))
             ELSE C20_Replay(st, Tail(steps))

----------------------------------------------------------------------------
(* Concurrent writers of one cache key, checked under SpecWriters *)

\* C21: whatever the interleaving of the writers, each cache key holds exactly
\* one entity, which is in every field the entity of the write that reached
\* the backend last; no stored entity differs from what some writer wrote.
C21_LastWriteWins ==
    /\ \A p \in store : \A q \in store : p.key = q.key => p = q
    /\ \A x \in lastWritten :
          { item.value : item \in { i \in store : i.key = x.key } } = { x.value }
    /\ StoreKeys(store) = { x.key : x \in lastWritten }
    /\ \A item \in store :
          \E w \in Writers : Write(item.schema, item.value) \in WriterWrites(w)
    /\ lastOp.op = "setItem" => lastOp.arg \in store

\* A writer prepared its write, another writer wrote the key in between, and
\* the first writer's upsert came last, while a further write to the key is in
\* preparation.
C21_Witness ==
    /\ lastOp.op = "setItem"
    /\ \E old \in lastOp.before :
          /\ old.key = lastOp.arg.key
          /\ old.value.homeAccountId # lastOp.arg.value.homeAccountId
          /\ old.schema = "Credential"
          /\ old.value.familyId # Undefined
          /\ lastOp.arg.value.familyId = Undefined
    /\ \E w \in Writers : pending[w] # None /\ pending[w].key = lastOp.arg.key

----------------------------------------------------------------------------
(* The entities one response writes, checked under Spec *)

\* The positions in a call's trace where a credential of the type is written.
C22_CredentialWrites(c, type) ==
    { i \in DOMAIN trace[c] :
        trace[c][i].name = "setCredential" /\ trace[c][i].arg.credentialType = type }

\* C22: a call that resolved wrote one AccessToken, IdToken and RefreshToken
\* credential, holding the token, for each of access_token, id_token and
\* refresh_token its response carries and none for one it lacks, wrote one
\* account exactly when the response carries an id_token, and wrote nothing
\* else.
C22_EntitiesPerResponse ==
    \A c \in CallIds : pc[c] = "resolved" =>
        LET body == response[c]
            accounts == { i \in DOMAIN trace[c] : trace[c][i].name = "setAccount" }
            present(p) == IF p THEN 1 ELSE 0
        IN  /\ Cardinality(C22_CredentialWrites(c, ACCESS_TOKEN))
                  = present(body.access_token # Undefined)
            /\ Cardinality(C22_CredentialWrites(c, ID_TOKEN)) = present(body.id_token # None)
            /\ Cardinality(C22_CredentialWrites(c, REFRESH_TOKEN))
                  = present(body.refresh_token # Undefined)
            /\ Cardinality(accounts) = present(body.id_token # None)
            /\ \A i \in C22_CredentialWrites(c, ACCESS_TOKEN) :
                  trace[c][i].arg.secret = body.access_token
            /\ \A i \in C22_CredentialWrites(c, ID_TOKEN) :
                  trace[c][i].arg.secret = body.id_token.raw
            /\ \A i \in C22_CredentialWrites(c, REFRESH_TOKEN) :
                  trace[c][i].arg.secret = body.refresh_token
            /\ Cardinality({ i \in DOMAIN trace[c] : IsCacheWrite(trace[c][i]) })
                  = present(body.access_token # Undefined) + present(body.refresh_token # Undefined)
                    + 2 * present(body.id_token # None)

\* One call resolved on a response with an id_token alone, another on a
\* response with an access_token alone.
C22_Witness ==
    \E c \in CallIds : \E d \in CallIds :
        /\ pc[c] = "resolved" /\ pc[d] = "resolved"
        /\ response[c].id_token # None
        /\ response[c].access_token = Undefined /\ response[c].refresh_token = Undefined
        /\ response[d].id_token = None /\ response[d].access_token # Undefined
        /\ C22_CredentialWrites(c, ID_TOKEN) # {}
        /\ C22_CredentialWrites(d, ACCESS_TOKEN) # {}

----------------------------------------------------------------------------
(* The home account id of the written entities, checked under Spec *)

\* The home account ids of the entities a call wrote and of its result.
C23_HomeAccountIds(c) ==
    { trace[c][i].arg.homeAccountId : i \in { j \in DOMAIN trace[c] : IsCacheWrite(trace[c][j]) } }
    \cup { outcome[c].result.account.homeAccountId }

\* C23: for a response that passed validation and whose ID token, if any,
\* decodes: with client_info the call resolves and every entity written has
\* the home account id uid.utid; without client_info it has the sub (or else
\* the oid) of the ID token; with neither the call fails with ClientAuthError
\* and writes nothing.
C23_HomeAccountId ==
    \A c \in CallIds :
        LET body == response[c]
        IN  ( /\ pc[c] \in { "resolved", "rejected" }
              /\ body # None
              /\ Falsy(body.error)
              /\ (body.access_token # Undefined \/ body.id_token # None)
              /\ (body.id_token # None => body.id_token.claims # Malformed) )
            => IF body.client_info # None
               THEN /\ pc[c] = "resolved"
                    /\ C23_HomeAccountIds(c)
                          = { body.client_info.uid \o <<".">> \o body.client_info.utid }
               ELSE IF body.id_token # None /\ ~ Falsy(body.id_token.claims.sub)
               THEN /\ pc[c] = "resolved"
                    /\ C23_HomeAccountIds(c) = { body.id_token.claims.sub }
               ELSE IF body.id_token # None /\ ~ Falsy(body.id_token.claims.oid)
               THEN /\ pc[c] = "resolved"
                    /\ C23_HomeAccountIds(c) = { body.id_token.claims.oid }
               ELSE /\ pc[c] = "rejected"
                    /\ outcome[c].error.type = "ClientAuthError"
                    /\ \A i \in DOMAIN trace[c] : ~ IsCacheWrite(trace[c][i])

\* One call took uid.utid from client_info though the ID token has a sub, the
\* other had no client_info and no sub and took the oid.
C23_Witness ==
    \E c \in CallIds : \E d \in CallIds :
        /\ pc[c] = "resolved" /\ pc[d] = "resolved"
        /\ response[c].client_info # None /\ response[c].id_token # None
        /\ outcome[c].result.account.homeAccountId = <<"u", ".", "v">>
        /\ response[d].client_info = None
        /\ outcome[d].result.account.homeAccountId = response[d].id_token.claims.oid
        /\ response[d].id_token.claims.sub = Undefined
        /\ \E item \in store : item.schema = "Account" /\ item.value.homeAccountId = <<"o">>

----------------------------------------------------------------------------
(* Mandatory collaborators of the configuration, checked under SpecConfig *)

\* C24: when the configuration leaves out the network or the crypto
\* interface, building it yields no client configuration, and no call is
\* rejected later by a collaborator that is not implemented.
C24_FailFast ==
    (configuration.networkInterface = None \/ configuration.cryptoInterface = None) =>
        /\ "networkInterface" \notin DOMAIN config
        /\ \A c \in CallIds : outcome[c].error.type # "AuthError"

----------------------------------------------------------------------------
(* The POSTs of one acquireToken call, checked under Spec *)

\* The POSTs a call's trace records.
C25_Sent(c) == { i \in DOMAIN trace[c] : trace[c][i].name = "sendPostRequest" }

\* C25: a call sends one POST when it starts and none after; a call that got
\* a ServerError, a validation failure or a network failure is rejected with
\* that error after its single POST and stays rejected.
C25_NoRetry ==
    /\ [][ \A c \in CallIds :
              /\ pc[c] # "idle" => posts'[c] = posts[c] /\ C25_Sent(c) = { 1 }
              /\ pc[c] = "rejected" => pc'[c] = "rejected" /\ outcome'[c] = outcome[c]
              /\ (pc[c] = "awaiting" /\ pc'[c] = "rejected") =>
                    outcome'[c].error.type \in { "ServerError", "ClientAuthError", "NetworkError" } ]_vars
    /\ [] ( \A c \in CallIds :
               /\ posts[c] <= 1
               /\ pc[c] = "rejected" => posts[c] = 1 /\ Cardinality(C25_Sent(c)) = 1 )

\* One call was rejected with ServerError and another with a network failure,
\* each after one POST.
C25_Witness ==
    \E c \in CallIds : \E d \in CallIds :
        /\ pc[c] = "rejected" /\ outcome[c].error.type = "ServerError" /\ posts[c] = 1
        /\ pc[d] = "rejected" /\ posts[d] = 1
        /\ outcome[d].error.type = "NetworkError"

----------------------------------------------------------------------------
(* The life of a stored entity, checked under SpecLifecycle *)

\* The step is a removeCredential or removeAccount of the key.
C26_Removed(key) ==
    /\ lastOp'.op \in { "removeCredential", "removeAccount" }
    /\ lastOp'.arg = key
    /\ pc' = pc /\ trace' = trace

\* The step is a silent call that missed at a second at which the stored
\* access token counts as expired.
C26_Evicted(item) ==
    \E c \in CallIds :
        /\ pc[c] = "idle" /\ pc'[c] = "awaiting"
        /\ trace'[c][1].name = "cacheMiss"
        /\ "expiresOn" \in DOMAIN item.value
        /\ item.value.expiresOn - config.systemOptions.tokenRenewalOffsetSeconds
              <= trace'[c][1].arg

\* The step is a response-handling run that resolved and wrote an entity
\* under the key, which is stored whole.
C26_Replaced(key) ==
    \E c \in CallIds :
        /\ pc[c] = "awaiting" /\ pc'[c] = "resolved"
        /\ \E i \in DOMAIN trace'[c] :
              /\ i > Len(trace[c])
              /\ IsCacheWrite(trace'[c][i])
              /\ \E new \in store' : new.key = key /\ new.value = trace'[c][i].arg

\* C26: a stored account or credential is in the store after every step, under
\* its key and with its fields, unless the step removes its key, evicts it as
\* expired on a silent miss, or writes an entity under its key; a lookup and a
\* response-handling run that is rejected leave the store as it was.
C26_Lifecycle ==
    [][ /\ \A item \in store :
              item.schema \in { "Account", "Credential" } =>
                  \/ item \in store'
                  \/ C26_Removed(item.key) /\ item.key \notin StoreKeys(store')
                  \/ C26_Evicted(item) /\ item.key \notin StoreKeys(store')
                  \/ C26_Replaced(item.key)
        /\ lastOp'.op \in { "getCredentialsFilteredBy", "getAccountsFilteredBy" }
              /\ pc' = pc => store' = store
        /\ \A c \in CallIds :
              (pc[c] = "awaiting" /\ pc'[c] = "rejected") => store' = store ]_vars

\* The entity that expires at second 1000 went by eviction, the call that
\* missed wrote its four entities, a later call replaced its access token,
\* and the account was removed by hand.
C26_Witness ==
    /\ \A item \in store : "expiresOn" \notin DOMAIN item.value
    /\ lastOp.op = "removeAccount"
    /\ lastOp.before # {}
    /\ \E c \in CallIds : \E d \in CallIds :
          /\ pc[c] = "resolved" /\ pc[d] = "resolved"
          /\ trace[c][1].name = "cacheMiss"
          /\ response[c].access_token # response[d].access_token
          /\ response[c].access_token # Undefined /\ response[d].access_token # Undefined
          /\ response[c].client_info # None /\ response[d].client_info # None

----------------------------------------------------------------------------
(* The type recovered from a generated key, checked under SpecRoundTrip *)

\* C27: getCredentialType applied to the key generated for a credential
\* returns the credential's type, whatever its other fields are.
C27_RoundTrip ==
    pcCodec = "classified" => classified = entity.credentialType

----------------------------------------------------------------------------
(* Keys and the entities filed under them, checked under SpecKeys *)

\* C28: every stored credential is under the key that the codec gives its own
\* fields, and every stored account under lowercase(homeAccountId-environment).
C28_KeyConsistency ==
    \A item \in store :
        /\ item.schema = "Credential" => item.key = CacheKeyOf(item.value)
        /\ item.schema = "Account" =>
              item.key = toLowerCase(item.value.homeAccountId \o <<"-">>
                                     \o item.value.environment)

\* After a removal the store holds a refresh token of a family, written by a
\* response, and an account.
C28_Witness ==
    /\ lastOp.op = "removeCredential"
    /\ \E item \in store :
          /\ item.schema = "Credential"
          /\ item.value.credentialType = REFRESH_TOKEN
          /\ item.value.familyId # Undefined
          /\ item.value.clientId = ClientId
          /\ item.value.homeAccountId = <<"u", ".", "v">>
    /\ \E item \in store : item.schema = "Account"
    /\ \E c \in CallIds : pc[c] = "resolved"

----------------------------------------------------------------------------
(* Concurrent calls and the response pipeline, checked under SpecPipeline *)

\* The cache writes a call's trace records.
C29_Written(c) == { i \in DOMAIN trace[c] : IsCacheWrite(trace[c][i]) }

\* The store holds an account without the ID token written with it.
C29_Partial(st) ==
    \E a \in AccountItems(st) :
        ~ \E p \in CredentialItems(st) :
              /\ p.value.credentialType = ID_TOKEN
              /\ p.value.homeAccountId = a.value.homeAccountId
              /\ p.value.environment = a.value.environment

\* C29: while a call is between the arrival of its response and its last
\* cache write, no other call takes a step; so when a call starts or resumes,
\* every other call has written none or all of its response's entities, and
\* the cache holds no account without its ID token.
C29_AtomicPipeline ==
    [][ \A d \in CallIds :
          /\ pc[d] = "running" =>
                \A c \in CallIds \ { d } : pc'[c] = pc[c] /\ trace'[c] = trace[c]
          /\ (pc[d] \in { "idle", "awaiting" } /\ pc'[d] # pc[d]) =>
                /\ ~ C29_Partial(store)
                /\ \A c \in CallIds \ { d } :
                      \/ C29_Written(c) = {}
                      \/ /\ pc[c] = "resolved"
                         /\ Cardinality(C29_Written(c))
                               = Len(responseWrites(store, response[c], Authority, <<"?">>)) ]_vars

\* A call's response arrived while the other call was awaiting; it has written
\* the account and not yet the credentials.
C29_Witness ==
    \E c \in CallIds : \E d \in CallIds :
        /\ pc[c] = "running" /\ pc[d] = "awaiting"
        /\ Cardinality(C29_Written(c)) = 1
        /\ C29_Partial(store)

----------------------------------------------------------------------------
(* The target of a written access token, checked under Spec *)

\* The access tokens the calls wrote, each with the call that wrote it.
C30_Written ==
    UNION { { <<c, trace[c][i].arg>> : i \in
                { j \in DOMAIN trace[c] :
                    /\ trace[c][j].name = "setCredential"
                    /\ trace[c][j].arg.credentialType = ACCESS_TOKEN } } : c \in CallIds }

C30_SameOwner(a, b) ==
    /\ a.homeAccountId = b.homeAccountId /\ a.environment = b.environment
    /\ a.clientId = b.clientId /\ a.realm = b.realm

\* C30: the target of a written access token is the requested scopes
\* lowercased, sorted and space-joined ("B a" and "a b" both give "a b") and
\* its cache key ends with it; two access tokens written for the same account,
\* client and realm with these scopes have the same key, and the store holds
\* one access token for them.
C30_TargetNormalization ==
    /\ \A w \in C30_Written :
          LET key == generateCredentialKey(w[2])
          IN  /\ ScopeSet(request[w[1]].scopes) = { <<"a">>, <<"b">> }
              /\ w[2].target = <<"a", " ", "b">>
              /\ Len(key) > 4
              /\ SubSeq(key, Len(key) - 3, Len(key)) = <<"-", "a", " ", "b">>
    /\ \A v \in C30_Written : \A w \in C30_Written :
          C30_SameOwner(v[2], w[2]) => generateCredentialKey(v[2]) = generateCredentialKey(w[2])
    /\ \A x \in CredentialItems(store) : \A y \in CredentialItems(store) :
          (/\ x.value.credentialType = ACCESS_TOKEN
           /\ y.value.credentialType = ACCESS_TOKEN
           /\ C30_SameOwner(x.value, y.value)) => x = y

\* Two calls that requested "B a" and "a b" both wrote an access token for the
\* same account, and the store holds one access token.
C30_Witness ==
    /\ \E v \in C30_Written : \E w \in C30_Written :
          /\ v[1] # w[1]
          /\ request[v[1]].scopes # request[w[1]].scopes
          /\ v[2].secret # w[2].secret
          /\ C30_SameOwner(v[2], w[2])
    /\ Cardinality({ x \in CredentialItems(store) : x.value.credentialType = ACCESS_TOKEN }) = 1

----------------------------------------------------------------------------
(* The silent lookup among several matches, checked under SpecTieBreak *)

\* The cached access tokens that match the silent lookup of req at second now.
C31_Matches(req, now) ==
    { e \in getCredentialsFilteredBy(store,
                CredentialFilter(<<"u">>, Authority.canonicalAuthorityHost, ACCESS_TOKEN,
                                 ClientId, Undefined, Authority.tenant, req.scopes)).entities :
        ~ isTokenExpired(e.expiresOn, now, config.systemOptions.tokenRenewalOffsetSeconds) }

----------------------------------------------------------------------------
(* Storage failures during response handling, checked under SpecStorage *)

C32_Failures(c) == { i \in DOMAIN trace[c] : trace[c][i].name = "storageFailure" }

C32_Persisted(c) == { i \in DOMAIN trace[c] : IsCacheWrite(trace[c][i]) }

\* C32: a call during whose cache writes the backend failed is rejected with
\* the backend's own error and has no result; a call that resolved saw no
\* storage failure and wrote every entity of its response.
C32_StorageFailureVisible ==
    \A c \in CallIds :
        /\ \A i \in C32_Failures(c) :
              /\ pc[c] = "rejected"
              /\ outcome[c].error = trace[c][i].arg
              /\ outcome[c].result = None
        /\ pc[c] = "resolved" =>
              /\ C32_Failures(c) = {}
              /\ outcome[c].error = NoError
              /\ Cardinality(C32_Persisted(c))
                    = Len(responseWrites(store, response[c], Authority, <<"?">>))

\* The backend failed after the account of a response was written and before
\* its credentials were; the call is rejected.
C32_Witness ==
    \E c \in CallIds :
        /\ C32_Failures(c) # {}
        /\ Cardinality(C32_Persisted(c)) = 1
        /\ pc[c] = "rejected"
        /\ outcome[c].error.type = "StorageError"

----------------------------------------------------------------------------
(* The sample's silent-then-interactive fallback, checked under SpecSample *)

C33_Events(c, names) == { i \in DOMAIN trace[c] : trace[c][i].name \in names }

C33_Interactive == { "acquireTokenPopup", "acquireTokenRedirect" }

\* C33: an interactive call is started only right after acquireTokenSilent was
\* rejected with InteractionRequiredAuthError, and it is the popup for
\* getTokenPopup and the redirect for getTokenRedirect; after a silent call
\* that resolved its access token is returned and no interactive call is made;
\* after a silent call rejected with another error no interactive call is made
\* and no token is returned.
C33_SilentThenInteractive ==
    \A c \in CallIds :
        /\ \A i \in C33_Events(c, C33_Interactive) :
              /\ i > 1
              /\ trace[c][i - 1].name = "silentRejected"
              /\ trace[c][i - 1].arg.type = "InteractionRequiredAuthError"
              /\ trace[c][i].name = (IF request[c].kind = "popup" THEN "acquireTokenPopup"
                                     ELSE "acquireTokenRedirect")
        /\ \A i \in C33_Events(c, { "silentResolved" }) :
              /\ C33_Events(c, C33_Interactive) = {}
              /\ pc[c] = "resolved"
              /\ outcome[c].result = trace[c][i].arg
        /\ \A i \in C33_Events(c, { "silentRejected" }) :
              trace[c][i].arg.type # "InteractionRequiredAuthError" =>
                  /\ C33_Events(c, C33_Interactive) = {}
                  /\ pc[c] = "resolved"
                  /\ outcome[c].result = Undefined

\* One call got its token from the popup after the silent call asked for
\* interaction; another ended without a token after a different error.
C33_Witness ==
    \E c \in CallIds : \E d \in CallIds :
        /\ C33_Events(c, { "acquireTokenPopup" }) # {}
        /\ pc[c] = "resolved" /\ outcome[c].result = <<"x">>
        /\ C33_Events(d, { "silentRejected" }) # {}
        /\ C33_Events(d, C33_Interactive) = {}
        /\ pc[d] = "resolved" /\ outcome[d].result = Undefined

====
